---- MODULE Spec2Model ----
(***************************************************************************)
(* Model of the Atlas property-analysis server:                            *)
(*   - scrapeProperty and its propertyCache (propertyScraperService)       *)
(*   - calculateInvestmentMetrics and assessRisk (propertyScraperService)  *)
(*   - generateAIAnalysis (server)                                         *)
(* Each await of an async function is a point where other calls and the    *)
(* clock may interleave; the code between two awaits is one atomic step.   *)
(***************************************************************************)
EXTENDS Integers, Sequences, FiniteSets, TLC

\* ---------------------------------------------------------------- bounds
MaxCalls == 2   \* scrapeProperty calls made in one run
MaxTicks == 2   \* clock advances in one run
MaxTextLen == 4 \* tokens in an AI response text

\* ------------------------------------------------------------- constants
CACHE_TTL == 3600000

\* The request handlers that may be inside scrapeProperty at the same time;
\* a handler whose call has settled is free to make another call.
Calls == {1, 2}
\* the (url, platform) arguments calls are made with
Requests ==
  {<<"u1", "idealista">>, <<"u1", "Idealista">>, <<"u1", "fotocasa">>,
   <<"u2", "fotocasa">>, <<"u2", "habitaclia">>, <<"u1", "zoopla">>}
\* The clock advances by half a TTL at a time: an entry is read at the ages
\* 0, TTL/2 (fresh), TTL (the first expired age) and beyond.
TickStep == CACHE_TTL \div 2

Null == [null |-> TRUE]
Undefined == [undefined |-> TRUE]
\* a string where undefined may stand instead
JStr(s) == [str |-> s]

VARIABLES
  propertyCache,  \* Map: cacheKey -> [timestamp, data]
  now,            \* Date.now()
  ticks,          \* number of clock advances so far
  calls,          \* number of scrapeProperty calls made so far
  callNo,         \* per call: its number in invocation order (0: not called)
  pc,             \* per call: position in scrapeProperty, or "analysis" while
                  \* its handler awaits generateAIAnalysis
  url,            \* per call: argument url
  platform,       \* per call: argument platform
  cachedData,     \* per call: what propertyCache.get(cacheKey) returned
  browser,        \* per call: the local `browser` (Null or a session)
  pending,        \* per call: completion of try/catch recorded while finally runs
  outcome,        \* per call: how the returned promise settled
  launchCalls,    \* per call: invocations of puppeteer.launch (kept until the
                  \* handler has responded)
  gotoCalls,      \* per call: invocations of page.goto
  parserCalls,    \* per call: invocations of a parse* function
  closeCalls      \* per call: invocations of browser.close

\* generateAIAnalysis
VARIABLES
  apiKey,         \* process.env.OPENAI_API_KEY is set
  spc,            \* position in generateAIAnalysis: "idle", "ai", "done"
  propertyData,   \* the argument of generateAIAnalysis
  ai,             \* what openai.chat.completions.create does when asked
  aiCalls,        \* invocations of openai.chat.completions.create
  result          \* how the promise of generateAIAnalysis settled

\* calculateInvestmentMetrics called on an object of the caller
VARIABLES
  mpc,            \* "idle", "ready" (the argument is built), "done" (called
                  \* once), "between" (another call was made), "again"
  metricsArg,     \* the object passed as propertyData, as its holder sees it
  metricsResult,  \* the completion of the latest call on metricsArg
  previousResult, \* the completion of the call on metricsArg before that
  metricsCalls    \* invocations of calculateInvestmentMetrics so far

\* a parser called on a page of its own
VARIABLES
  parserCall,     \* Null, or the parser called and the page it was given
  parseResult     \* the completion of that call

\* the handler of POST /api/property-analysis
VARIABLES
  hpc,            \* per request: "idle", "scrape" (awaiting scrapeProperty),
                  \* "score" (awaiting generateAIAnalysis), "responded"
  reqBody,        \* per request: req.body
  handlerData,    \* per request: propertyData, then enhancedPropertyData
  invoked,        \* per request: the stages invoked for it, in order
  responses       \* per request: the responses sent for it, in order

scrapeVars == <<propertyCache, now, ticks, calls, callNo, pc, url, platform,
                cachedData, browser, pending, outcome, launchCalls, gotoCalls,
                parserCalls, closeCalls>>
scoreVars == <<apiKey, spc, propertyData, ai, aiCalls, result>>
metricsVars == <<mpc, metricsArg, metricsResult, previousResult, metricsCalls>>
parserVars == <<parserCall, parseResult>>
endpointVars == <<hpc, reqBody, handlerData, invoked, responses>>
vars == <<scrapeVars, scoreVars, metricsVars, parserVars, endpointVars>>

\* String.prototype.toLowerCase on the strings in use
ToLowerCase(s) ==
  CASE s = "Idealista" -> "idealista"
    [] s = "Madrid" -> "madrid"
    [] s = "Barcelona" -> "barcelona"
    [] s = "Madrid Centro" -> "madrid centro"
    [] s = "BARCELONA" -> "barcelona"
    [] s = "Madridejos" -> "madridejos"
    [] s = "Valencia" -> "valencia"
    [] s = "Very Low" -> "very low"
    [] s = "Low" -> "low"
    [] s = "Medium" -> "medium"
    [] s = "High" -> "high"
    [] s = "Very High" -> "very high"
    [] OTHER -> s

\* variant: the key built from the lower-cased platform tag
CacheKeyLowerCased(u, p) == <<ToLowerCase(p), u>>

\* `${platform}:${url}`
CacheKey(u, p) == <<p, u>>

\* variant: a switch without the default arm's throw (every tag is parsed)
SupportedPlatformsLax == {"idealista", "fotocasa", "habitaclia", "zoopla"}

\* the arms of the switch over platform.toLowerCase()
SupportedPlatforms == {"idealista", "fotocasa", "habitaclia"}

\* variant: the comparison reversed (serves only entries older than the TTL)
CacheHitReversed(entry, t) == entry # Null /\ entry.timestamp < t - CACHE_TTL

\* variant: the boundary age included (age = TTL still served)
CacheHitInclusive(entry, t) == entry # Null /\ entry.timestamp >= t - CACHE_TTL

\* cachedData && cachedData.timestamp > Date.now() - CACHE_TTL
CacheHit(entry, t) == entry # Null /\ entry.timestamp > t - CACHE_TTL

Returned(v) == [kind |-> "returned", value |-> v]
Threw(e) == [kind |-> "threw", value |-> e]
NoOutcome == [kind |-> "none", value |-> Null]
Err(m) == [message |-> m]
TypeError == Err(<<"TypeError">>)

\* ------------------------------------------------ calculateInvestmentMetrics

\* A JavaScript number in the metrics is the fraction n/d in lowest terms:
\* d > 0 is a finite value, 1/0 and -1/0 are Infinity and -Infinity, 0/0 is
\* NaN. (The rounding of binary floating point is not represented.)
RECURSIVE GCD(_, _)
GCD(a, b) == IF b = 0 THEN a ELSE GCD(b, a % b)
Abs(x) == IF x < 0 THEN 0 - x ELSE x
Sign(x) == IF x > 0 THEN 1 ELSE IF x < 0 THEN 0 - 1 ELSE 0
Num(n, d) ==
  IF d = 0 THEN [n |-> Sign(n), d |-> 0]
  ELSE LET g == GCD(Abs(n), d) IN [n |-> n \div g, d |-> d \div g]
IntNum(i) == [n |-> i, d |-> 1]
NaN == [n |-> 0, d |-> 0]
Infinity == [n |-> 1, d |-> 0]

\* a * b
Mul(a, b) ==
  IF a.d = 0 \/ b.d = 0 THEN [n |-> Sign(a.n) * Sign(b.n), d |-> 0]
  ELSE LET g1 == GCD(Abs(a.n), b.d)
           g2 == GCD(Abs(b.n), a.d)
       IN Num((a.n \div g1) * (b.n \div g2), (a.d \div g2) * (b.d \div g1))
\* 1 / a
Recip(a) ==
  IF a.d = 0 THEN (IF a.n = 0 THEN NaN ELSE IntNum(0))
  ELSE IF a.n = 0 THEN Infinity
  ELSE IF a.n > 0 THEN [n |-> a.d, d |-> a.n]
  ELSE [n |-> 0 - a.d, d |-> 0 - a.n]
\* a / b
Div(a, b) == Mul(a, Recip(b))
\* a + b
Add(a, b) ==
  IF a = NaN \/ b = NaN THEN NaN
  ELSE IF a.d = 0 /\ b.d = 0 THEN (IF a.n = b.n THEN a ELSE NaN)
  ELSE IF a.d = 0 THEN a
  ELSE IF b.d = 0 THEN b
  ELSE LET g == GCD(a.d, b.d)
       IN Num(a.n * (b.d \div g) + b.n * (a.d \div g), (a.d \div g) * b.d)
Neg(a) == [n |-> 0 - a.n, d |-> a.d]
\* a - b
Sub(a, b) == Add(a, Neg(b))
\* a > b (false when either is NaN)
Gt(a, b) ==
  IF a = NaN \/ b = NaN THEN FALSE
  ELSE IF a.d = 0 /\ b.d = 0 THEN a.n > b.n
  ELSE IF a.d = 0 THEN a.n > 0
  ELSE IF b.d = 0 THEN b.n < 0
  ELSE a.n * b.d > b.n * a.d
\* a < b
Lt(a, b) == Gt(b, a)
\* the numeric value of an operand: null is 0, undefined is NaN
NumberOf(x) ==
  IF x = Undefined THEN NaN ELSE IF x = Null THEN IntNum(0) ELSE x

\* String.prototype.includes on the lower-cased locations in use
Includes(s, sub) ==
  CASE sub = "madrid" -> s \in {"madrid", "madrid centro", "madridejos"}
    [] sub = "barcelona" -> s \in {"barcelona"}
    [] OTHER -> FALSE

\* variant: the yield bonus granted from 5 upwards, the penalty up to 3
YieldAdjustmentInclusive(rentalYield) ==
  IF ~Lt(rentalYield, IntNum(5)) /\ rentalYield # NaN THEN 10
  ELSE IF ~Gt(rentalYield, IntNum(3)) /\ rentalYield # NaN THEN 0 - 10
  ELSE 0

\* variant: a low yield costs 30 points
YieldAdjustmentSteep(rentalYield) ==
  IF Gt(rentalYield, IntNum(5)) THEN 10
  ELSE IF Lt(rentalYield, IntNum(3)) THEN 0 - 30
  ELSE 0

\* if (rentalYield > 5) score += 10; else if (rentalYield < 3) score -= 10
YieldAdjustment(rentalYield) ==
  IF Gt(rentalYield, IntNum(5)) THEN 10
  ELSE IF Lt(rentalYield, IntNum(3)) THEN 0 - 10
  ELSE 0

\* the if/else chain over score
RiskCategory(score) ==
  IF score >= 85 THEN "Very Low"
  ELSE IF score >= 70 THEN "Low"
  ELSE IF score >= 50 THEN "Medium"
  ELSE IF score >= 30 THEN "High"
  ELSE "Very High"

\* propertyData.location.toLowerCase() throws on a missing location
AssessRiskThrows(pd) == pd.location \in {Undefined, Null}

\* variant: a score that drifts with the number of calls made so far
BaseScoreDrifting == 70 + 10 * metricsCalls

\* let score = 70
BaseScore == 70

\* assessRisk(propertyData)
AssessRisk(pd) ==
  LET location == ToLowerCase(pd.location.str)
      rentalYield ==
        Mul(Div(Mul(NumberOf(pd.estimatedMonthlyRent), IntNum(12)),
                NumberOf(pd.purchasePrice)), IntNum(100))
      score == BaseScore
               + (IF Includes(location, "madrid") \/ Includes(location, "barcelona")
                  THEN 10 ELSE 0)
               + YieldAdjustment(rentalYield)
  IN [overall |-> RiskCategory(score),
      score |-> score,
      factors |-> [location |-> pd.location,
                   propertyType |-> pd.propertyType,
                   rentalYield |-> rentalYield]]

\* variant: management at 10% of the rental income
ManagementFeesTenPercent(annualRentalIncome) == Mul(annualRentalIncome, Num(10, 100))

\* annualRentalIncome * 0.08
ManagementFees(annualRentalIncome) == Mul(annualRentalIncome, Num(8, 100))

\* the annuity factor r (1 + r)^N / ((1 + r)^N - 1) for the monthly rate
\* r = 3.5 / 100 / 12 and N = 30 * 12 payments, to six decimals
AnnuityFactor == Num(4490, 1000000)

\* { ...propertyData, financialMetrics, riskAssessment }: a new object with the
\* argument's own properties and the two added ones
Spread(pd, extra) ==
  [f \in (DOMAIN pd) \cup (DOMAIN extra) |->
     IF f \in DOMAIN extra THEN extra[f] ELSE pd[f]]

\* lines 119-157 and 164-182: the financialMetrics object
FinancialMetrics(pd) ==
  LET purchasePrice == pd.purchasePrice
      estimatedMonthlyRent == pd.estimatedMonthlyRent
      squareMeters == pd.squareMeters
      annualRentalIncome == Mul(NumberOf(estimatedMonthlyRent), IntNum(12))
      propertyTax == Mul(NumberOf(purchasePrice), Num(5, 1000))
      insurance == Mul(NumberOf(purchasePrice), Num(2, 1000))
      maintenance == Mul(NumberOf(purchasePrice), Num(1, 100))
      managementFees == ManagementFees(annualRentalIncome)
      totalExpenses == Add(Add(Add(propertyTax, insurance), maintenance), managementFees)
      netOperatingIncome == Sub(annualRentalIncome, totalExpenses)
      capRate == Mul(Div(netOperatingIncome, NumberOf(purchasePrice)), IntNum(100))
      downPayment == Mul(NumberOf(purchasePrice), Num(3, 10))
      loanAmount == Sub(NumberOf(purchasePrice), downPayment)
      monthlyMortgagePayment == Mul(loanAmount, AnnuityFactor)
      annualMortgagePayment == Mul(monthlyMortgagePayment, IntNum(12))
      annualCashFlow == Sub(netOperatingIncome, annualMortgagePayment)
      cashOnCashReturn == Mul(Div(annualCashFlow, downPayment), IntNum(100))
      rentalYield == Mul(Div(annualRentalIncome, NumberOf(purchasePrice)), IntNum(100))
      pricePerSquareMeter == Div(NumberOf(purchasePrice), NumberOf(squareMeters))
  IN [purchasePrice |-> purchasePrice,
      estimatedMonthlyRent |-> estimatedMonthlyRent,
      annualRentalIncome |-> annualRentalIncome,
      expenses |-> [propertyTax |-> propertyTax,
                    insurance |-> insurance,
                    maintenance |-> maintenance,
                    managementFees |-> managementFees],
      totalExpenses |-> totalExpenses,
      netOperatingIncome |-> netOperatingIncome,
      capRate |-> capRate,
      cashOnCashReturn |-> cashOnCashReturn,
      rentalYield |-> rentalYield,
      pricePerSquareMeter |-> pricePerSquareMeter,
      breakEvenOccupancy |-> Mul(Div(totalExpenses, annualRentalIncome), IntNum(100)),
      mortgagePayment |-> monthlyMortgagePayment]

\* the only statement of calculateInvestmentMetrics that can throw is the call
\* of assessRisk
CalculateInvestmentMetricsThrows(pd) == AssessRiskThrows(pd)

\* variant: the result built without the spread (only the two added fields)
CalculateInvestmentMetricsNoSpread(pd) ==
  IF CalculateInvestmentMetricsThrows(pd) THEN Threw(TypeError)
  ELSE Returned([financialMetrics |-> FinancialMetrics(pd),
                 riskAssessment |-> AssessRisk(pd)])

\* calculateInvestmentMetrics(propertyData): the completion of the call
CalculateInvestmentMetrics(pd) ==
  IF CalculateInvestmentMetricsThrows(pd) THEN Threw(TypeError)
  ELSE Returned(Spread(pd, [financialMetrics |-> FinancialMetrics(pd),
                            riskAssessment |-> AssessRisk(pd)]))

\* variant: the two fields assigned to the argument object itself
ArgumentAfterAssign(pd) ==
  IF CalculateInvestmentMetricsThrows(pd) THEN pd
  ELSE Spread(pd, [financialMetrics |-> FinancialMetrics(pd),
                   riskAssessment |-> AssessRisk(pd)])

\* The argument object once calculateInvestmentMetrics has run: the function
\* only reads propertyData (destructuring, spread), so every reference to the
\* object still sees the same properties.
ArgumentAfterCall(pd) == pd

ScrapeInit ==
  /\ propertyCache = << >>
  /\ now = 0
  /\ ticks = 0
  /\ calls = 0
  /\ callNo = [c \in Calls |-> 0]
  /\ pc = [c \in Calls |-> "idle"]
  /\ url = [c \in Calls |-> "u1"]
  /\ platform = [c \in Calls |-> "idealista"]
  /\ cachedData = [c \in Calls |-> Null]
  /\ browser = [c \in Calls |-> Null]
  /\ pending = [c \in Calls |-> NoOutcome]
  /\ outcome = [c \in Calls |-> NoOutcome]
  /\ launchCalls = [c \in Calls |-> 0]
  /\ gotoCalls = [c \in Calls |-> 0]
  /\ parserCalls = [c \in Calls |-> 0]
  /\ closeCalls = [c \in Calls |-> 0]

\* no scoring request is in progress
ScoreIdle ==
  /\ spc = "idle"
  /\ propertyData = Null
  /\ ai = Null
  /\ aiCalls = 0
  /\ result = NoOutcome

\* calculateInvestmentMetrics has not been called on its own
MetricsIdle ==
  /\ mpc = "idle"
  /\ metricsArg = Null
  /\ metricsResult = NoOutcome
  /\ previousResult = NoOutcome
  /\ metricsCalls = 0

\* no parser has been called on its own
ParserIdle ==
  /\ parserCall = Null
  /\ parseResult = NoOutcome

\* the requests to the endpoint, each handled by its own invocation of the
\* handler; the invocations run concurrently
Handlers == {1, 2}

\* no request has arrived
EndpointIdle ==
  /\ hpc = [h \in Handlers |-> "idle"]
  /\ reqBody = [h \in Handlers |-> Null]
  /\ handlerData = [h \in Handlers |-> Null]
  /\ invoked = [h \in Handlers |-> << >>]
  /\ responses = [h \in Handlers |-> << >>]

Init == ScrapeInit /\ apiKey = FALSE /\ ScoreIdle /\ MetricsIdle /\ ParserIdle /\ EndpointIdle

\* Date.now() moves forward
Tick ==
  /\ ticks < MaxTicks
  /\ now' = now + TickStep
  /\ ticks' = ticks + 1
  /\ UNCHANGED <<propertyCache, calls, callNo, pc, url, platform, cachedData, browser,
                 pending, outcome, launchCalls, gotoCalls, parserCalls,
                 closeCalls>>
  /\ UNCHANGED <<scoreVars, metricsVars, parserVars, endpointVars>>

\* propertyCache.get(cacheKey)
CacheGet(k) == IF k \in DOMAIN propertyCache THEN propertyCache[k] ELSE Null

\* variant: the parsed record is returned without being stored
CacheSetDropped(k, entry) == propertyCache

\* variant: first-writer-wins (an existing entry is kept)
CacheSetIfAbsent(k, entry) ==
  IF k \in DOMAIN propertyCache THEN propertyCache
  ELSE [x \in (DOMAIN propertyCache) \cup {k} |->
          IF x = k THEN entry ELSE propertyCache[x]]

\* propertyCache.set(cacheKey, entry)
CacheSet(k, entry) ==
  [x \in (DOMAIN propertyCache) \cup {k} |-> IF x = k THEN entry ELSE propertyCache[x]]

\* variant: sliding expiration (a read refreshes the entry's timestamp)
ServeFromCacheSliding(c, entry) ==
  /\ outcome' = [outcome EXCEPT ![c] = Returned(entry.data)]
  /\ pc' = [pc EXCEPT ![c] = "done"]
  /\ propertyCache' =
       [k \in DOMAIN propertyCache |->
          IF propertyCache[k] = entry
          THEN [timestamp |-> now, data |-> entry.data]
          ELSE propertyCache[k]]
  /\ UNCHANGED launchCalls

\* the cache-hit branch: return cachedData.data, nothing else is touched
ServeFromCache(c, entry) ==
  /\ outcome' = [outcome EXCEPT ![c] = Returned(entry.data)]
  /\ pc' = [pc EXCEPT ![c] = "done"]
  /\ UNCHANGED <<propertyCache, launchCalls>>

\* scrapeProperty(url, platform) up to its first await: the cache test, then
\* either the cached data is returned or puppeteer.launch is invoked.
ScrapePropertyCall(c) ==
  /\ pc[c] = "idle"
  /\ \A d \in Calls : d < c => pc[d] # "idle"
  /\ calls < MaxCalls
  /\ calls' = calls + 1
  /\ callNo' = [callNo EXCEPT ![c] = calls + 1]
  /\ \E r \in Requests :
       LET u == r[1]
           p == r[2]
           entry == CacheGet(CacheKey(u, p)) IN
       /\ url' = [url EXCEPT ![c] = u]
       /\ platform' = [platform EXCEPT ![c] = p]
       /\ cachedData' = [cachedData EXCEPT ![c] = entry]
       /\ \/ /\ CacheHit(entry, now)
             /\ ServeFromCache(c, entry)
          \/ /\ ~CacheHit(entry, now)
             /\ launchCalls' = [launchCalls EXCEPT ![c] = @ + 1]
             /\ pc' = [pc EXCEPT ![c] = "launch"]
             /\ UNCHANGED <<propertyCache, outcome>>
  /\ UNCHANGED <<now, ticks, browser, pending, gotoCalls, parserCalls,
                 closeCalls>>
  /\ UNCHANGED <<scoreVars, metricsVars, parserVars, endpointVars>>

\* variant: no finally block (the session is closed on no path)
EnterFinallyNoClose(c, b, completion) ==
  /\ outcome' = [outcome EXCEPT ![c] = completion]
  /\ pc' = [pc EXCEPT ![c] = "done"]
  /\ UNCHANGED <<pending, closeCalls>>

\* the finally block: if (browser) await browser.close(); otherwise the
\* recorded completion settles the promise at once.
EnterFinally(c, b, completion) ==
  IF b # Null
  THEN /\ pending' = [pending EXCEPT ![c] = completion]
       /\ closeCalls' = [closeCalls EXCEPT ![c] = @ + 1]
       /\ pc' = [pc EXCEPT ![c] = "close"]
       /\ UNCHANGED outcome
  ELSE /\ outcome' = [outcome EXCEPT ![c] = completion]
       /\ pc' = [pc EXCEPT ![c] = "done"]
       /\ UNCHANGED <<pending, closeCalls>>

\* await puppeteer.launch(...) resolves: browser is assigned, the page is
\* set up and page.goto is invoked.
LaunchResolves(c) ==
  /\ pc[c] = "launch"
  /\ browser' = [browser EXCEPT ![c] = [session |-> callNo[c]]]
  /\ gotoCalls' = [gotoCalls EXCEPT ![c] = @ + 1]
  /\ pc' = [pc EXCEPT ![c] = "goto"]
  /\ UNCHANGED <<propertyCache, now, ticks, calls, callNo, url, platform, cachedData,
                 pending, outcome, launchCalls, parserCalls, closeCalls>>
  /\ UNCHANGED <<scoreVars, metricsVars, parserVars, endpointVars>>

\* await puppeteer.launch(...) rejects: catch rethrows, browser is still null
LaunchRejects(c) ==
  /\ pc[c] = "launch"
  /\ EnterFinally(c, browser[c], Threw(Err(<<"launch failed">>)))
  /\ UNCHANGED <<propertyCache, now, ticks, calls, callNo, url, platform, cachedData,
                 browser, launchCalls, gotoCalls, parserCalls>>
  /\ UNCHANGED <<scoreVars, metricsVars, parserVars, endpointVars>>

\* variant: a failed navigation is attempted once more before giving up
GotoRejectsRetry(c) ==
  /\ pc[c] = "goto"
  /\ IF gotoCalls[c] < 2
     THEN /\ gotoCalls' = [gotoCalls EXCEPT ![c] = @ + 1]
          /\ UNCHANGED <<pc, pending, outcome, closeCalls>>
     ELSE /\ EnterFinally(c, browser[c], Threw(Err(<<"navigation failed">>)))
          /\ UNCHANGED gotoCalls
  /\ UNCHANGED <<propertyCache, now, ticks, calls, callNo, url, platform, cachedData,
                 browser, launchCalls, parserCalls>>
  /\ UNCHANGED <<scoreVars, metricsVars, parserVars, endpointVars>>

\* an await between newPage and page.content (page set-up, page.goto with its
\* 30 s timeout, the settle delay) rejects
GotoRejects(c) ==
  /\ pc[c] = "goto"
  /\ EnterFinally(c, browser[c], Threw(Err(<<"navigation failed">>)))
  /\ UNCHANGED <<propertyCache, now, ticks, calls, callNo, url, platform, cachedData,
                 browser, launchCalls, gotoCalls, parserCalls>>
  /\ UNCHANGED <<scoreVars, metricsVars, parserVars, endpointVars>>

\* navigation resolves and the switch dispatches on platform.toLowerCase()
GotoResolves(c) ==
  /\ pc[c] = "goto"
  /\ \/ /\ ToLowerCase(platform[c]) \in SupportedPlatforms
        /\ parserCalls' = [parserCalls EXCEPT ![c] = @ + 1]
        /\ pc' = [pc EXCEPT ![c] = "parse"]
        /\ UNCHANGED <<pending, outcome, closeCalls>>
     \/ /\ ToLowerCase(platform[c]) \notin SupportedPlatforms
        /\ EnterFinally(c, browser[c],
                        Threw(Err(<<"Unsupported platform", platform[c]>>)))
        /\ UNCHANGED parserCalls
  /\ UNCHANGED <<propertyCache, now, ticks, calls, callNo, url, platform, cachedData,
                 browser, launchCalls, gotoCalls>>
  /\ UNCHANGED <<scoreVars, metricsVars, parserVars, endpointVars>>

\* Math.round of a finite number: the nearest integer, halves upwards
Round(a) == IntNum((2 * a.n + a.d) \div (2 * a.d))

\* variant: the estimate cut to a whole number with Math.floor
EstimatedMonthlyRentFloor(purchasePrice) ==
  IF purchasePrice \in {Null, NaN, IntNum(0)} THEN Undefined
  ELSE LET estimate == Div(Mul(purchasePrice, Num(45, 1000)), IntNum(12))
       IN IntNum(estimate.n \div estimate.d)

\* if (purchasePrice) estimatedMonthlyRent = Math.round((purchasePrice * 0.045) / 12)
EstimatedMonthlyRent(purchasePrice) ==
  IF purchasePrice \in {Null, NaN, IntNum(0)} THEN Undefined
  ELSE Round(Div(Mul(purchasePrice, Num(45, 1000)), IntNum(12)))

\* What the selectors extract from the page at a url: u1 is a listing with
\* its location and price, u2 a page on which the price and location elements
\* are missing. Neither page has an area element (a page that has one makes
\* the parser fail, see PropertyDetail), so details.squareMeters is not set.
PageContent(u) ==
  IF u = "u1"
  THEN [location |-> "Madrid Centro",
        purchasePrice |-> IntNum(450000), squareMeters |-> Undefined]
  ELSE [location |-> "", purchasePrice |-> Null, squareMeters |-> Undefined]

\* x || 0
OrZero(x) == IF x \in {Undefined, Null, NaN, IntNum(0)} THEN IntNum(0) ELSE x

\* The record a parser builds: a fresh object (obj) stamped with its source,
\* with the fields calculateInvestmentMetrics reads.
ParsedRecord(c) ==
  LET page == PageContent(url[c]) IN
  [obj |-> callNo[c],
   location |-> JStr(page.location),
   purchasePrice |-> page.purchasePrice,
   estimatedMonthlyRent |-> EstimatedMonthlyRent(page.purchasePrice),
   squareMeters |-> OrZero(page.squareMeters),
   propertyType |-> JStr("Apartment"),
   source |-> [platform |-> ToLowerCase(platform[c]), url |-> url[c],
               scrapedAt |-> now]]

\* await parseX(page, htmlContent) resolves: the record is cached and returned
ParserResolves(c) ==
  /\ pc[c] = "parse"
  /\ propertyCache' = CacheSet(CacheKey(url[c], platform[c]),
                               [timestamp |-> now, data |-> ParsedRecord(c)])
  /\ EnterFinally(c, browser[c], Returned(ParsedRecord(c)))
  /\ UNCHANGED <<now, ticks, calls, callNo, url, platform, cachedData, browser,
                 launchCalls, gotoCalls, parserCalls>>
  /\ UNCHANGED <<scoreVars, metricsVars, parserVars, endpointVars>>

\* await parseX(page, htmlContent) rejects
ParserRejects(c) ==
  /\ pc[c] = "parse"
  /\ EnterFinally(c, browser[c],
                  Threw(Err(<<"Failed to parse", ToLowerCase(platform[c])>>)))
  /\ UNCHANGED <<propertyCache, now, ticks, calls, callNo, url, platform, cachedData,
                 browser, launchCalls, gotoCalls, parserCalls>>
  /\ UNCHANGED <<scoreVars, metricsVars, parserVars, endpointVars>>

\* await browser.close() resolves: the recorded completion settles the promise
CloseResolves(c) ==
  /\ pc[c] = "close"
  /\ outcome' = [outcome EXCEPT ![c] = pending[c]]
  /\ pc' = [pc EXCEPT ![c] = "done"]
  /\ UNCHANGED <<propertyCache, now, ticks, calls, callNo, url, platform, cachedData,
                 browser, pending, launchCalls, gotoCalls, parserCalls,
                 closeCalls>>
  /\ UNCHANGED <<scoreVars, metricsVars, parserVars, endpointVars>>

\* await browser.close() rejects inside finally: its error replaces the
\* recorded completion.
CloseRejects(c) ==
  /\ pc[c] = "close"
  /\ outcome' = [outcome EXCEPT ![c] = Threw(Err(<<"close failed">>))]
  /\ pc' = [pc EXCEPT ![c] = "done"]
  /\ UNCHANGED <<propertyCache, now, ticks, calls, callNo, url, platform, cachedData,
                 browser, pending, launchCalls, gotoCalls, parserCalls,
                 closeCalls>>
  /\ UNCHANGED <<scoreVars, metricsVars, parserVars, endpointVars>>

\* The objects the cache holds once calculateInvestmentMetrics has run on the
\* record rec: an entry whose data is that very object sees what the function
\* did to its argument.
CacheAfterEnrich(rec) ==
  [k \in DOMAIN propertyCache |->
     IF propertyCache[k].data.obj = rec.obj
     THEN [timestamp |-> propertyCache[k].timestamp,
           data |-> ArgumentAfterCall(propertyCache[k].data)]
     ELSE propertyCache[k]]

\* The caller's continuation after `await scrapeProperty(...)`. A rejection
\* is answered with the 400 response and the handler is free again. A record
\* is passed to calculateInvestmentMetrics: if that throws, the 500 response
\* is sent; otherwise the handler goes on to await generateAIAnalysis.
CallerResumes(c) ==
  LET enriches == /\ outcome[c].kind = "returned"
                  /\ ~CalculateInvestmentMetricsThrows(outcome[c].value)
  IN
  /\ pc[c] = "done"
  /\ pc' = [pc EXCEPT ![c] = IF enriches THEN "analysis" ELSE "idle"]
  /\ propertyCache' = IF outcome[c].kind = "returned"
                      THEN CacheAfterEnrich(outcome[c].value)
                      ELSE propertyCache
  /\ launchCalls' = IF enriches THEN launchCalls
                    ELSE [launchCalls EXCEPT ![c] = 0]
  /\ callNo' = [callNo EXCEPT ![c] = 0]
  /\ url' = [url EXCEPT ![c] = "u1"]
  /\ platform' = [platform EXCEPT ![c] = "idealista"]
  /\ cachedData' = [cachedData EXCEPT ![c] = Null]
  /\ browser' = [browser EXCEPT ![c] = Null]
  /\ pending' = [pending EXCEPT ![c] = NoOutcome]
  /\ outcome' = [outcome EXCEPT ![c] = NoOutcome]
  /\ gotoCalls' = [gotoCalls EXCEPT ![c] = 0]
  /\ parserCalls' = [parserCalls EXCEPT ![c] = 0]
  /\ closeCalls' = [closeCalls EXCEPT ![c] = 0]
  /\ UNCHANGED <<now, ticks, calls>>
  /\ UNCHANGED <<scoreVars, metricsVars, parserVars, endpointVars>>

\* `await generateAIAnalysis(enhancedPropertyData)` has resolved: the response
\* is sent and the handler is free for another request
HandlerResponds(c) ==
  /\ pc[c] = "analysis"
  /\ pc' = [pc EXCEPT ![c] = "idle"]
  /\ launchCalls' = [launchCalls EXCEPT ![c] = 0]
  /\ UNCHANGED <<propertyCache, now, ticks, calls, callNo, url, platform,
                 cachedData, browser, pending, outcome, gotoCalls,
                 parserCalls, closeCalls>>
  /\ UNCHANGED <<scoreVars, metricsVars, parserVars, endpointVars>>

Next ==
  \/ Tick
  \/ \E c \in Calls : ScrapePropertyCall(c)
  \/ \E c \in Calls : LaunchResolves(c)
  \/ \E c \in Calls : LaunchRejects(c)
  \/ \E c \in Calls : GotoResolves(c)
  \/ \E c \in Calls : GotoRejects(c)
  \/ \E c \in Calls : ParserResolves(c)
  \/ \E c \in Calls : ParserRejects(c)
  \/ \E c \in Calls : CloseResolves(c)
  \/ \E c \in Calls : CloseRejects(c)
  \/ \E c \in Calls : CallerResumes(c)
  \/ \E c \in Calls : HandlerResponds(c)

Spec == Init /\ [][Next]_vars

\* ---------------------------------------------------- generateAIAnalysis

\* JavaScript values: a number (NaN or an integer count of some unit)
JNum(v) == [nan |-> FALSE, v |-> v]
JNaN == [nan |-> TRUE, v |-> 0]
\* ToNumber in an arithmetic expression: undefined becomes NaN
ToNumber(x) == IF x = Undefined THEN JNaN ELSE x
Min(a, b) == IF a < b THEN a ELSE b
\* Math.min(x, cap): NaN if x is NaN
MathMin(x, cap) == IF x.nan THEN JNaN ELSE JNum(Min(x.v, cap))

\* The records generateAIAnalysis is given. rentalYield is in hundredths of a
\* percent (520 is 5.2%); a field may be missing.
FinancialMetricsInputs ==
  {Undefined} \cup {[rentalYield |-> y] : y \in {Undefined, JNaN, JNum(250), JNum(520)}}
RiskAssessmentInputs ==
  {Undefined,
   [score |-> JNum(70), overall |-> JStr("Low")],
   [score |-> JNum(90), overall |-> JStr("Very Low")],
   [score |-> JNum(70), overall |-> Undefined]}
PropertyInputs ==
  {[financialMetrics |-> fm, riskAssessment |-> ra, squareMeters |-> sq] :
     fm \in FinancialMetricsInputs, ra \in RiskAssessmentInputs,
     sq \in {JNum(60), JNum(90)}}

\* An AI response text is a sequence of tokens: the word "score" in two
\* spellings, a line break, some other character, and two digits.
Tokens == {"score", "SCORE", "NL", "x", "0", "1"}
Texts == UNION {[1..n -> Tokens] : n \in 0..MaxTextLen}
\* what the AI collaborator may do: reject, answer with a response that has no
\* choices array, answer without content, or answer with a text
AIBehaviours ==
  {[kind |-> k, text |-> << >>] : k \in {"rejects", "malformed", "noContent"}}
  \cup {[kind |-> "content", text |-> t] : t \in Texts}

IsDigit(t) == t \in {"0", "1"}
\* the literal "score" under the i flag
IsScoreWord(t) == t \in {"score", "SCORE"}
DigitValue(t) == IF t = "1" THEN 1 ELSE 0

\* .*? stops at the first digit; it cannot cross a line break
FirstStop(text, i) ==
  CHOOSE j \in (i + 1)..(Len(text) + 1) :
    /\ j = Len(text) + 1 \/ text[j] = "NL" \/ IsDigit(text[j])
    /\ \A k \in (i + 1)..(j - 1) : text[k] # "NL" /\ ~IsDigit(text[k])
\* the regular expression matches with "score" at position i
MatchesAt(text, i) ==
  /\ IsScoreWord(text[i])
  /\ FirstStop(text, i) <= Len(text)
  /\ IsDigit(text[FirstStop(text, i)])
\* (\d+): the longest run of digits from position j
DigitRun(text, j) ==
  LET last == CHOOSE k \in j..Len(text) :
                /\ \A m \in j..k : IsDigit(text[m])
                /\ k = Len(text) \/ ~IsDigit(text[k + 1])
  IN SubSeq(text, j, last)
\* aiResponse.match(/score.*?(\d+)/i): the capture group of the leftmost
\* match, or Null
ScoreMatch(text) ==
  LET starts == {i \in 1..Len(text) : MatchesAt(text, i)} IN
  IF starts = {} THEN Null
  ELSE LET i == CHOOSE x \in starts : \A y \in starts : x <= y
       IN [group1 |-> DigitRun(text, FirstStop(text, i))]

RECURSIVE ParseInt(_)
\* parseInt on a string of decimal digits
ParseInt(digits) ==
  IF digits = << >> THEN 0
  ELSE 10 * ParseInt(SubSeq(digits, 1, Len(digits) - 1))
       + DigitValue(digits[Len(digits)])

\* lines 81-82 read a field of financialMetrics and of riskAssessment
HeuristicThrows(pd) ==
  pd.financialMetrics = Undefined \/ pd.riskAssessment = Undefined

\* The three components, in tenths of a point.
\* variant: the yield component without its cap
RentalYieldScoreUncapped(pd) == ToNumber(pd.financialMetrics.rentalYield)

\* Math.min(rentalYield * 10, 50)
RentalYieldScore(pd) == MathMin(ToNumber(pd.financialMetrics.rentalYield), 50 * 10)
\* Math.min(score * 0.3, 30)
RiskScore(pd) ==
  LET x == ToNumber(pd.riskAssessment.score) IN
  MathMin(IF x.nan THEN JNaN ELSE JNum(x.v * 3), 30 * 10)
\* variant: the area component without its cap (40 above 70 m2, else 30)
LocationScoreUncapped(pd) ==
  LET sq == ToNumber(pd.squareMeters) IN
  JNum(((IF ~sq.nan /\ sq.v > 70 THEN 80 ELSE 60) * 10 * 10) \div 20)

\* Math.min((squareMeters > 70 ? 80 : 60) / 20 * 10, 20)
LocationScore(pd) ==
  LET sq == ToNumber(pd.squareMeters) IN
  JNum(Min(((IF ~sq.nan /\ sq.v > 70 THEN 80 ELSE 60) * 10 * 10) \div 20, 20 * 10))
\* Math.round of the sum; a NaN component makes it NaN
TotalScore(pd) ==
  IF RentalYieldScore(pd).nan \/ RiskScore(pd).nan THEN JNaN
  ELSE JNum((RentalYieldScore(pd).v + RiskScore(pd).v + LocationScore(pd).v + 5) \div 10)

\* the template of line 125 calls rentalYield.toFixed and overall.toLowerCase
TemplateThrows(pd) ==
  \/ pd.financialMetrics.rentalYield = Undefined
  \/ pd.riskAssessment.overall = Undefined
Template(pd) ==
  [template |-> "heuristic",
   yield |-> pd.financialMetrics.rentalYield,
   verdict |-> IF ~pd.financialMetrics.rentalYield.nan
                  /\ pd.financialMetrics.rentalYield.v > 500
               THEN "good" ELSE "average",
   risk |-> ToLowerCase(pd.riskAssessment.overall.str)]

Fallthrough == [kind |-> "fallthrough", value |-> Null]

\* lines 123-126: return {score: totalScore, analysis: template}
HeuristicReturn(pd) ==
  IF TemplateThrows(pd) THEN Threw(TypeError)
  ELSE Returned([score |-> TotalScore(pd), analysis |-> Template(pd)])

\* lines 108-116: the body of the inner try once the AI call has resolved
ExtractScore(a) ==
  IF a.kind = "malformed" THEN Threw(TypeError)
  ELSE LET aiResponse == a.text
           scoreMatch == ScoreMatch(aiResponse)
       IN IF scoreMatch # Null /\ scoreMatch.group1 # << >>
          THEN Returned([score |-> JNum(ParseInt(scoreMatch.group1)),
                         analysis |-> [template |-> "ai", text |-> aiResponse]])
          ELSE Fallthrough

\* variant: the inner catch lets the error through
InnerCatchRethrows(completion) == completion

\* lines 117-120: the inner catch logs and falls back to the simple algorithm
InnerCatch(completion) ==
  IF completion.kind = "threw" THEN Fallthrough ELSE completion

\* after the if block: an AI result is returned, otherwise lines 123-126 run
AfterAI(pd, completion) ==
  IF completion = Fallthrough THEN HeuristicReturn(pd) ELSE completion

FallbackResult ==
  [score |-> JNum(70), analysis |-> [template |-> "unavailable"]]

\* variant: no outer catch (an error of the body rejects the promise)
OuterCatchRethrows(completion) == completion

\* lines 127-133: the outer catch returns the default score
OuterCatch(completion) ==
  IF completion.kind = "threw" THEN Returned(FallbackResult) ELSE completion

ScoreInit ==
  ScrapeInit /\ apiKey \in BOOLEAN /\ ScoreIdle /\ MetricsIdle /\ ParserIdle /\ EndpointIdle

\* generateAIAnalysis(propertyData) up to its first await
GenerateAIAnalysisCall ==
  /\ spc = "idle"
  /\ \E pd \in PropertyInputs, a \in (IF apiKey THEN AIBehaviours ELSE {Null}) :
       /\ propertyData' = pd
       /\ ai' = a
       /\ \/ /\ HeuristicThrows(pd)
             /\ result' = OuterCatch(Threw(TypeError))
             /\ spc' = "done"
             /\ UNCHANGED aiCalls
          \/ /\ ~HeuristicThrows(pd)
             /\ apiKey
             /\ aiCalls' = aiCalls + 1
             /\ spc' = "ai"
             /\ UNCHANGED result
          \/ /\ ~HeuristicThrows(pd)
             /\ ~apiKey
             /\ result' = OuterCatch(HeuristicReturn(pd))
             /\ spc' = "done"
             /\ UNCHANGED aiCalls
  /\ UNCHANGED <<apiKey, scrapeVars, metricsVars, parserVars, endpointVars>>

\* await openai.chat.completions.create(...) resolves
AICallResolves ==
  /\ spc = "ai"
  /\ ai.kind # "rejects"
  /\ result' = OuterCatch(AfterAI(propertyData, InnerCatch(ExtractScore(ai))))
  /\ spc' = "done"
  /\ UNCHANGED <<apiKey, propertyData, ai, aiCalls, scrapeVars, metricsVars, parserVars, endpointVars>>

\* await openai.chat.completions.create(...) rejects
AICallRejects ==
  /\ spc = "ai"
  /\ ai.kind = "rejects"
  /\ result' = OuterCatch(AfterAI(propertyData,
                                  InnerCatch(Threw(Err(<<"OpenAI error">>)))))
  /\ spc' = "done"
  /\ UNCHANGED <<apiKey, propertyData, ai, aiCalls, scrapeVars, metricsVars, parserVars, endpointVars>>

ScoreNext ==
  \/ GenerateAIAnalysisCall
  \/ AICallResolves
  \/ AICallRejects

ScoreSpec == ScoreInit /\ [][ScoreNext]_vars

\* ----------------------------------- calculateInvestmentMetrics on its own

\* The records calculateInvestmentMetrics is given: a price, a rent and an
\* area that may be missing, zero or negative, and locations in and out of
\* the prime markets.
Prices ==
  {Undefined, Null, IntNum(0), IntNum(0 - 240000), IntNum(240000), IntNum(450000)}
Rents ==
  {Undefined, IntNum(0), IntNum(500), IntNum(600), IntNum(1000), IntNum(1950)}
Areas == {IntNum(0), IntNum(60), IntNum(90)}
Locations ==
  {Undefined, JStr(""), JStr("Madrid Centro"), JStr("BARCELONA"),
   JStr("Madridejos"), JStr("Valencia")}
MetricsInputs ==
  {[location |-> l, purchasePrice |-> p, estimatedMonthlyRent |-> r,
    squareMeters |-> a, bedrooms |-> IntNum(2), propertyType |-> JStr("Apartment")] :
     l \in Locations, p \in Prices, r \in Rents, a \in Areas}

MetricsInit ==
  ScrapeInit /\ apiKey = FALSE /\ ScoreIdle /\ MetricsIdle /\ ParserIdle /\ EndpointIdle

\* the caller builds the object it is going to pass
BuildArgument ==
  /\ mpc = "idle"
  /\ metricsArg' \in MetricsInputs
  /\ mpc' = "ready"
  /\ UNCHANGED <<metricsResult, previousResult, metricsCalls, scrapeVars, scoreVars, parserVars, endpointVars>>

\* calculateInvestmentMetrics(metricsArg), the first time and once again
CalculateInvestmentMetricsCall ==
  /\ mpc \in {"ready", "done", "between"}
  /\ mpc' = IF mpc = "ready" THEN "done" ELSE "again"
  /\ previousResult' = metricsResult
  /\ metricsResult' = CalculateInvestmentMetrics(metricsArg)
  /\ metricsArg' = ArgumentAfterCall(metricsArg)
  /\ metricsCalls' = metricsCalls + 1
  /\ UNCHANGED <<scrapeVars, scoreVars, parserVars, endpointVars>>

\* calculateInvestmentMetrics called on some other record in the meantime
CalculateOther ==
  /\ mpc = "done"
  /\ mpc' = "between"
  /\ metricsCalls' = metricsCalls + 1
  /\ UNCHANGED <<metricsArg, metricsResult, previousResult, scrapeVars, scoreVars, parserVars, endpointVars>>

MetricsNext ==
  \/ BuildArgument
  \/ CalculateInvestmentMetricsCall
  \/ CalculateOther
  \/ Tick

MetricsSpec == MetricsInit /\ [][MetricsNext]_vars

\* -------------------------------------------------------------- parsers

\* document.querySelector found no element
Missing == [missing |-> TRUE]
\* an element of the page with its textContent (for a list, of its items)
Element(text) == [textContent |-> text]

\* The text of a price or detail element is a sequence of characters.
DecimalDigits == <<"0", "1", "2", "3", "4", "5", "6", "7", "8", "9">>
IsDecimalDigit(ch) == \E i \in 1..10 : DecimalDigits[i] = ch
DigitOf(ch) == (CHOOSE i \in 1..10 : DecimalDigits[i] = ch) - 1

\* String.prototype.trim on a sequence of characters
RECURSIVE TrimText(_)
TrimText(text) ==
  IF text = << >> THEN text
  ELSE IF Head(text) = " " THEN TrimText(Tail(text))
  ELSE IF text[Len(text)] = " " THEN TrimText(SubSeq(text, 1, Len(text) - 1))
  ELSE text

\* String.prototype.trim on the titles, locations, types and features in use
Trim(str) ==
  CASE str = " Piso en venta " -> "Piso en venta"
    [] str = " Madrid " -> "Madrid"
    [] str = " Terraza " -> "Terraza"
    [] OTHER -> str

\* priceText.replace(/[^0-9]/g, '')
StripNonDigits(text) == SelectSeq(text, IsDecimalDigit)

\* the value of a sequence of decimal digits
RECURSIVE DigitsValue(_)
DigitsValue(digits) ==
  IF digits = << >> THEN 0
  ELSE 10 * DigitsValue(SubSeq(digits, 1, Len(digits) - 1))
       + DigitOf(digits[Len(digits)])

\* parseInt(text, 10) on a text without leading blanks or sign: the value of
\* the longest prefix of decimal digits, NaN when the text starts with none
ParseIntRadix10(text) ==
  LET n == CHOOSE k \in 0..Len(text) :
             /\ \A m \in 1..k : IsDecimalDigit(text[m])
             /\ k = Len(text) \/ ~IsDecimalDigit(text[k + 1])
  IN IF n = 0 THEN NaN ELSE IntNum(DigitsValue(SubSeq(text, 1, n)))

\* text.match(/\\d+/): in the regular expression literal \\ is an escaped
\* backslash, so the pattern is a backslash followed by one or more letters d.
\* The leftmost match as [0], or Null.
DetailMatch(text) ==
  LET starts == {i \in 1..(Len(text) - 1) : text[i] = "\\" /\ text[i + 1] = "d"} IN
  IF starts = {} THEN Null
  ELSE LET i == CHOOSE x \in starts : \A y \in starts : x <= y
           last == CHOOSE k \in (i + 1)..Len(text) :
                     /\ \A m \in (i + 1)..k : text[m] = "d"
                     /\ k = Len(text) \/ text[k + 1] # "d"
       IN SubSeq(text, i, last)

\* if (el) details.x = parseInt(el.textContent.trim().match(/\\d+/)[0], 10):
\* the property is left unset without the element; [0] of a null match throws
PropertyDetail(el) ==
  IF el = Missing THEN Returned(Undefined)
  ELSE LET m == DetailMatch(TrimText(el.textContent)) IN
       IF m = Null THEN Threw(TypeError)
       ELSE Returned(ParseIntRadix10(m))

\* the price evaluate: null without the element, otherwise parseInt of the
\* digits of its text
PurchasePrice(el) ==
  IF el = Missing THEN Null
  ELSE ParseIntRadix10(StripNonDigits(TrimText(el.textContent)))

\* el ? el.textContent.trim() : ''
TextOrEmpty(el) == IF el = Missing THEN "" ELSE Trim(el.textContent)

\* x || 'Apartment'
OrApartment(x) == IF x \in {Undefined, JStr("")} THEN JStr("Apartment") ELSE x

\* the three structural details and the property type; an exception of one
\* statement leaves the evaluate
PropertyDetails(pg) ==
  LET squareMeters == PropertyDetail(pg.area)
      bedrooms == PropertyDetail(pg.bedrooms)
      bathrooms == PropertyDetail(pg.bathrooms)
  IN IF \E d \in {squareMeters, bedrooms, bathrooms} : d.kind = "threw"
     THEN Threw(TypeError)
     ELSE Returned([squareMeters |-> squareMeters.value,
                    bedrooms |-> bedrooms.value,
                    bathrooms |-> bathrooms.value,
                    propertyType |-> IF pg.propertyType = Missing THEN Undefined
                                     ELSE JStr(Trim(pg.propertyType.textContent))])

\* `${address}, ${location}`.trim() as the pieces of the resulting string
IdealistaAddress(pg) ==
  LET address == TextOrEmpty(pg.title)
      location == TextOrEmpty(pg.location)
  IN IF location = "" THEN <<address, ",">> ELSE <<address, ", ", location>>

\* the features evaluate of parseIdealista
IdealistaFeatures(pg) ==
  IF pg.features = Missing THEN << >>
  ELSE [i \in 1..Len(pg.features.textContent) |-> Trim(pg.features.textContent[i])]

\* throw new Error(`Failed to parse ${name} data: ${error.message}`)
ParseFailure(name, cause) == Threw(Err(<<"Failed to parse", name, cause.message>>))

\* the fields the three parsers build in the same way
CommonFields(pg, details, platformTag, u, t) ==
  [location |-> JStr(TextOrEmpty(pg.location)),
   purchasePrice |-> PurchasePrice(pg.price),
   estimatedMonthlyRent |-> EstimatedMonthlyRent(PurchasePrice(pg.price)),
   squareMeters |-> OrZero(details.squareMeters),
   bedrooms |-> OrZero(details.bedrooms),
   bathrooms |-> OrZero(details.bathrooms),
   propertyType |-> OrApartment(details.propertyType),
   source |-> [platform |-> platformTag, url |-> u, scrapedAt |-> t]]

\* parseIdealista on the page pg at url u, at time t
ParseIdealista(pg, u, t) ==
  LET details == PropertyDetails(pg) IN
  IF details.kind = "threw" THEN ParseFailure("Idealista", details.value)
  ELSE Returned(Spread(CommonFields(pg, details.value, "idealista", u, t),
                       [propertyAddress |-> IdealistaAddress(pg),
                        features |-> IdealistaFeatures(pg)]))

\* parseFotocasa
ParseFotocasa(pg, u, t) ==
  LET details == PropertyDetails(pg) IN
  IF details.kind = "threw" THEN ParseFailure("Fotocasa", details.value)
  ELSE Returned(Spread(CommonFields(pg, details.value, "fotocasa", u, t),
                       [propertyAddress |-> <<TextOrEmpty(pg.title)>>]))

\* parseHabitaclia
ParseHabitaclia(pg, u, t) ==
  LET details == PropertyDetails(pg) IN
  IF details.kind = "threw" THEN ParseFailure("Habitaclia", details.value)
  ELSE Returned(Spread(CommonFields(pg, details.value, "habitaclia", u, t),
                       [propertyAddress |-> <<TextOrEmpty(pg.title)>>]))

\* --------------------------------------------------- a parser on its own

MaxDetailLen == 2  \* characters in the text of the area element

\* the characters of a detail text: a digit, a letter, a backslash, the letter d
DetailChars == {"9", "m", "\\", "d"}
DetailTexts == UNION {[1..n -> DetailChars] : n \in 1..MaxDetailLen}
Elements(texts) == {Element(t) : t \in texts}
\* price texts: no digit, 0, 200, 400.000 and 450.000 euros
PriceTexts ==
  {<<"€">>, <<"0", " ", "€">>, <<"2", "0", "0", " ", "€">>,
   <<"4", "0", "0", ".", "0", "0", "0">>,
   <<" ", "4", "5", "0", ".", "0", "0", "0", " ", "€", " ">>}
\* The pages a parser is given: every element is missing or has a text.
ParserPages ==
  {[title |-> ti, location |-> lo, price |-> pr, area |-> ar, bedrooms |-> bd,
    bathrooms |-> bt, propertyType |-> ty, features |-> fe] :
     ti \in {Missing, Element(" Piso en venta ")},
     lo \in {Missing, Element(" Madrid ")},
     pr \in {Missing} \cup Elements(PriceTexts),
     ar \in {Missing} \cup Elements(DetailTexts),
     bd \in {Missing, Element(<<"3">>)},
     bt \in {Missing, Element(<<"\\", "d">>)},
     ty \in {Missing, Element("Chalet")},
     fe \in {Missing, Element(<<" Terraza ">>)}}

ParserInit ==
  ScrapeInit /\ apiKey = FALSE /\ ScoreIdle /\ MetricsIdle /\ ParserIdle /\ EndpointIdle

\* A parser shares no state with anything else, so its awaits are not points
\* where another step could make a difference: one call is one step.
ParseIdealistaCall ==
  /\ parserCall = Null
  /\ \E pg \in ParserPages :
       /\ parserCall' = [parser |-> "parseIdealista", page |-> pg]
       /\ parseResult' = ParseIdealista(pg, "u1", now)
  /\ UNCHANGED <<scrapeVars, scoreVars, metricsVars, endpointVars>>

ParseFotocasaCall ==
  /\ parserCall = Null
  /\ \E pg \in ParserPages :
       /\ parserCall' = [parser |-> "parseFotocasa", page |-> pg]
       /\ parseResult' = ParseFotocasa(pg, "u1", now)
  /\ UNCHANGED <<scrapeVars, scoreVars, metricsVars, endpointVars>>

ParseHabitacliaCall ==
  /\ parserCall = Null
  /\ \E pg \in ParserPages :
       /\ parserCall' = [parser |-> "parseHabitaclia", page |-> pg]
       /\ parseResult' = ParseHabitaclia(pg, "u1", now)
  /\ UNCHANGED <<scrapeVars, scoreVars, metricsVars, endpointVars>>

ParserNext ==
  \/ ParseIdealistaCall
  \/ ParseFotocasaCall
  \/ ParseHabitacliaCall

ParserSpec == ParserInit /\ [][ParserNext]_vars


\* ------------------------------------------- POST /api/property-analysis

\* the request bodies: url and platform may be missing, url may be empty;
\* useMockData is true, or false or missing (FALSE)
RequestBodies ==
  {[url |-> u, platform |-> pl, useMockData |-> mk] :
     u \in {Undefined, JStr(""), JStr("u1")},
     pl \in {Undefined, JStr("idealista"), JStr("fotocasa"), JStr("zoopla")},
     mk \in BOOLEAN}
\* !x for a string that may be missing
Falsy(x) == x \in {Undefined, JStr("")}

\* lines 153-167: the mock record
MockRecord(body, t) ==
  [propertyAddress |-> <<"Calle Gran Via 28, Madrid">>,
   marketTrends |-> [rentalYield |-> Num(52, 10), areaGrowth |-> Num(48, 10)],
   purchasePrice |-> IntNum(450000),
   estimatedMonthlyRent |-> IntNum(1950),
   squareMeters |-> IntNum(90),
   bedrooms |-> IntNum(2),
   bathrooms |-> IntNum(2),
   propertyType |-> JStr("Apartment"),
   location |-> IF body.platform = JStr("idealista") THEN JStr("Madrid")
                ELSE IF body.platform = JStr("fotocasa") THEN JStr("Barcelona")
                ELSE JStr("Valencia"),
   source |-> [platform |-> body.platform,
               url |-> IF Falsy(body.url) THEN JStr("https://example.com")
                       ELSE body.url,
               scrapedAt |-> t]]

\* the pages behind the urls a request may name: a bare page and a listing
\* with title, location and price
ListingPage ==
  [title |-> Element(" Piso en venta "), location |-> Element(" Madrid "),
   price |-> Element(<<"4", "0", "0", ".", "0", "0", "0">>), area |-> Missing,
   bedrooms |-> Missing, bathrooms |-> Missing, propertyType |-> Missing,
   features |-> Missing]
BarePage == [f \in DOMAIN ListingPage |-> Missing]
\* The records scrapeProperty(url, platform) may resolve with: what the parser
\* of the platform builds (now, or earlier and served from the cache); none
\* for a platform without a parser, where the call can only reject.
ScrapedRecords(body, t) ==
  IF body.platform = Undefined THEN {}
  ELSE LET tag == ToLowerCase(body.platform.str) IN
       {(CASE tag = "idealista" -> ParseIdealista(pg, body.url.str, t)
           [] tag = "fotocasa" -> ParseFotocasa(pg, body.url.str, t)
           [] tag = "habitaclia" -> ParseHabitaclia(pg, body.url.str, t)).value :
          pg \in IF tag \in SupportedPlatforms THEN {ListingPage, BarePage} ELSE {}}

\* what generateAIAnalysis resolves with (it never rejects)
AnalysisResults ==
  {[score |-> 91, analysis |-> "heuristic"], [score |-> 70, analysis |-> "unavailable"]}

\* the responses
MissingUrlResponse == [status |-> 400, success |-> FALSE, error |-> "Missing URL"]
ScrapeFailedResponse ==
  [status |-> 400, success |-> FALSE, error |-> "Failed to scrape property data"]
ServerErrorResponse == [status |-> 500, success |-> FALSE, error |-> "Server error"]
SuccessResponse(body, enhanced, aiAnalysis) ==
  [status |-> 200, success |-> TRUE,
   data |-> [url |-> body.url, platform |-> body.platform,
             propertyDetails |->
               Spread(enhanced, [atlasScore |-> aiAnalysis.score,
                                 aiAnalysis |-> aiAnalysis.analysis])]]

\* Lines 184-187 for handler h with the record pd, after the stages done so
\* far: calculateInvestmentMetrics runs, then generateAIAnalysis is invoked
\* and awaited; an exception goes to the outer catch, which answers 500.
EnrichThenScore(h, pd, done) ==
  LET enhanced == CalculateInvestmentMetrics(pd) IN
  IF enhanced.kind = "threw"
  THEN /\ invoked' = [invoked EXCEPT ![h] = done \o <<"calculateInvestmentMetrics">>]
       /\ handlerData' = [handlerData EXCEPT ![h] = pd]
       /\ responses' = [responses EXCEPT ![h] = <<ServerErrorResponse>>]
       /\ hpc' = [hpc EXCEPT ![h] = "responded"]
  ELSE /\ invoked' = [invoked EXCEPT ![h] =
                        done \o <<"calculateInvestmentMetrics", "generateAIAnalysis">>]
       /\ handlerData' = [handlerData EXCEPT ![h] = enhanced.value]
       /\ responses' = [responses EXCEPT ![h] = << >>]
       /\ hpc' = [hpc EXCEPT ![h] = "score"]

EndpointInit ==
  ScrapeInit /\ apiKey = FALSE /\ ScoreIdle /\ MetricsIdle /\ ParserIdle /\ EndpointIdle

\* Request h arrives and its handler runs to its first await: the 400 for a
\* request without url and useMockData, the mock record enriched and passed to
\* generateAIAnalysis, or scrapeProperty invoked.
RequestArrives(h) ==
  /\ hpc[h] = "idle"
  /\ \E body \in RequestBodies :
       /\ reqBody' = [reqBody EXCEPT ![h] = body]
       /\ IF Falsy(body.url) /\ ~body.useMockData
          THEN /\ responses' = [responses EXCEPT ![h] = <<MissingUrlResponse>>]
               /\ invoked' = [invoked EXCEPT ![h] = << >>]
               /\ handlerData' = [handlerData EXCEPT ![h] = Null]
               /\ hpc' = [hpc EXCEPT ![h] = "responded"]
          ELSE IF body.useMockData
          THEN EnrichThenScore(h, MockRecord(body, now), <<"mockData">>)
          ELSE /\ invoked' = [invoked EXCEPT ![h] = <<"scrapeProperty">>]
               /\ responses' = [responses EXCEPT ![h] = << >>]
               /\ handlerData' = [handlerData EXCEPT ![h] = Null]
               /\ hpc' = [hpc EXCEPT ![h] = "scrape"]
  /\ UNCHANGED <<scrapeVars, scoreVars, metricsVars, parserVars>>

\* await scrapeProperty(url, platform) resolves with a record
ScrapeResolves(h) ==
  /\ hpc[h] = "scrape"
  /\ \E pd \in ScrapedRecords(reqBody[h], now) :
       EnrichThenScore(h, pd, invoked[h])
  /\ UNCHANGED <<reqBody, scrapeVars, scoreVars, metricsVars, parserVars>>

\* variant: the inner catch without its return (the handler goes on with
\* propertyData undefined, whose destructuring throws into the outer catch)
ScrapeRejectsNoReturn(h) ==
  /\ hpc[h] = "scrape"
  /\ responses' = [responses EXCEPT ![h] = <<ScrapeFailedResponse, ServerErrorResponse>>]
  /\ invoked' = [invoked EXCEPT ![h] = @ \o <<"calculateInvestmentMetrics">>]
  /\ hpc' = [hpc EXCEPT ![h] = "responded"]
  /\ UNCHANGED <<reqBody, handlerData, scrapeVars, scoreVars, metricsVars, parserVars>>

\* await scrapeProperty(url, platform) rejects: the inner catch answers 400
\* and returns
ScrapeRejects(h) ==
  /\ hpc[h] = "scrape"
  /\ responses' = [responses EXCEPT ![h] = <<ScrapeFailedResponse>>]
  /\ hpc' = [hpc EXCEPT ![h] = "responded"]
  /\ UNCHANGED <<reqBody, handlerData, invoked, scrapeVars, scoreVars, metricsVars,
                 parserVars>>

\* await generateAIAnalysis(enhancedPropertyData) resolves: the success
\* response is sent
AnalysisResolves(h) ==
  /\ hpc[h] = "score"
  /\ \E aiAnalysis \in AnalysisResults :
       responses' = [responses EXCEPT ![h] =
                       Append(@, SuccessResponse(reqBody[h], handlerData[h], aiAnalysis))]
  /\ hpc' = [hpc EXCEPT ![h] = "responded"]
  /\ UNCHANGED <<reqBody, handlerData, invoked, scrapeVars, scoreVars, metricsVars,
                 parserVars>>

EndpointNext ==
  \/ \E h \in Handlers : RequestArrives(h)
  \/ \E h \in Handlers : ScrapeResolves(h)
  \/ \E h \in Handlers : ScrapeRejects(h)
  \/ \E h \in Handlers : AnalysisResolves(h)

EndpointSpec == EndpointInit /\ [][EndpointNext]_vars

\* ------------------------------------------------------------ properties

Done(c) == pc[c] = "done"
Launched(c) == browser[c] # Null
\* the call now made by c: c leaves "idle" in this step
Starts(c) == pc[c] = "idle" /\ pc'[c] # "idle"
\* the entry stored for the arguments of the call c makes in this step
KeyOfStart(c) == <<platform'[c], url'[c]>>
UnsupportedError(p) == Threw(Err(<<"Unsupported platform", p>>))
\* the platform tags the contract names
ContractPlatforms == {"idealista", "fotocasa", "habitaclia"}
Unsupported(c) == pc[c] # "idle" /\ ToLowerCase(platform[c]) \notin ContractPlatforms
\* c returned the record its own parse built
ReturnedOwnParse(c) ==
  /\ Done(c)
  /\ outcome[c].kind = "returned"
  /\ outcome[c].value.obj = callNo[c]

\* C1: every call that launched a browser has invoked browser.close() exactly
\* once by the time it has returned or thrown, on every exit path (navigation
\* failure, parser failure, unsupported platform, success); a call that never
\* got a browser invokes it zero times; close is never invoked twice, and a
\* launched session is unclosed only while the try body is still running.
C1_SessionReleasedOnEveryExit ==
  \A c \in Calls :
    /\ closeCalls[c] <= 1
    /\ Done(c) => closeCalls[c] = (IF Launched(c) THEN 1 ELSE 0)
    /\ (Launched(c) /\ closeCalls[c] = 0) => pc[c] \in {"goto", "parse"}

\* a failed and a successful call have both finished, each with one close
C1_Witness ==
  \E c, d \in Calls :
    /\ Done(c) /\ Launched(c) /\ closeCalls[c] = 1
    /\ outcome[c] = Threw(Err(<<"navigation failed">>))
    /\ ReturnedOwnParse(d) /\ Launched(d) /\ closeCalls[d] = 1

\* C2: a call made while an entry younger than the TTL is stored under its
\* platform:url returns that entry's data at once, with no browser launch,
\* navigation or parser call; so it returns the identical record as a finished
\* call with the same arguments whose parse stored that entry.
C2_FreshEntryServed ==
  [][\A c \in Calls :
       (/\ Starts(c)
        /\ KeyOfStart(c) \in DOMAIN propertyCache
        /\ now - propertyCache[KeyOfStart(c)].timestamp < CACHE_TTL)
       => /\ pc'[c] = "done"
          /\ outcome'[c] = Returned(propertyCache[KeyOfStart(c)].data)
          /\ launchCalls'[c] = 0 /\ gotoCalls'[c] = 0 /\ parserCalls'[c] = 0
          /\ browser'[c] = Null /\ closeCalls'[c] = 0
          /\ \A d \in Calls \ {c} :
               (/\ ReturnedOwnParse(d)
                /\ url[d] = url'[c] /\ platform[d] = platform'[c]
                /\ propertyCache[KeyOfStart(c)].data.obj = callNo[d])
               => outcome'[c] = outcome[d]]_vars

\* a second call with the same arguments, made half a TTL after the first
\* stored its record, has returned the first call's record without a browser
C2_Witness ==
  \E c, d \in Calls :
    /\ ReturnedOwnParse(d)
    /\ Done(c) /\ c # d /\ url[c] = url[d] /\ platform[c] = platform[d]
    /\ launchCalls[c] = 0 /\ outcome[c] = outcome[d]
    /\ now > outcome[d].value.source.scrapedAt

\* C3: a call made while no entry, or only an entry of age >= TTL, is stored
\* under its platform:url launches a browser; and whatever a call that went to
\* the browser returns is the record of its own parse, never the stale entry.
C3_ExpiredEntryNeverServed ==
  /\ [][\A c \in Calls :
          (/\ Starts(c)
           /\ \/ KeyOfStart(c) \notin DOMAIN propertyCache
              \/ now - propertyCache[KeyOfStart(c)].timestamp >= CACHE_TTL)
          => pc'[c] = "launch" /\ launchCalls'[c] = 1 /\ outcome'[c] = NoOutcome]_vars
  /\ [](\A c \in Calls :
          (Done(c) /\ launchCalls[c] = 1 /\ outcome[c].kind = "returned")
          => /\ outcome[c].value.obj = callNo[c]
             /\ cachedData[c] # Null => outcome[c].value # cachedData[c].data)

\* a call found an entry exactly one TTL old, scraped again and returned its
\* own record
C3_Witness ==
  \E c \in Calls :
    /\ ReturnedOwnParse(c) /\ launchCalls[c] = 1
    /\ cachedData[c] # Null
    /\ outcome[c].value.source.scrapedAt = cachedData[c].timestamp + CACHE_TTL

\* C4: a cache hit leaves the cache unchanged (the entry keeps the timestamp
\* of its capture), and no entry is served at an age of a TTL or more, however
\* often it was read before.
C4_NoSlidingExpiration ==
  [][\A c \in Calls :
       (Starts(c) /\ pc'[c] = "done")
       => /\ propertyCache' = propertyCache
          /\ KeyOfStart(c) \in DOMAIN propertyCache
          /\ now - propertyCache[KeyOfStart(c)].timestamp < CACHE_TTL]_vars

\* an entry was read half a TTL after its capture and still carries the
\* capture time, and the clock has since reached the entry's expiry
C4_Witness ==
  \E c \in Calls :
    /\ Done(c) /\ launchCalls[c] = 0
    /\ CacheKey(url[c], platform[c]) \in DOMAIN propertyCache
    /\ propertyCache[CacheKey(url[c], platform[c])] = cachedData[c]
    /\ cachedData[c].timestamp = cachedData[c].data.source.scrapedAt
    /\ now = cachedData[c].timestamp + CACHE_TTL

\* C5 (as claimed): a close that throws does not change what reaches the
\* caller: a call that invoked browser.close() settles with the completion of
\* its try/catch (the parsed record, or the original failure).
C5_CloseFailureDoesNotMaskOutcome ==
  \A c \in Calls : (Done(c) /\ closeCalls[c] = 1) => outcome[c] = pending[c]

ScoreDone == spc = "done"
\* the AI collaborator answers with a text from which a score can be extracted
AIExtractable == apiKey /\ ai.kind = "content" /\ ScoreMatch(ai.text) # Null
\* the AI score with the model's own text
AIResult ==
  [score |-> JNum(ParseInt(ScoreMatch(ai.text).group1)),
   analysis |-> [template |-> "ai", text |-> ai.text]]
\* the heuristic computation of the input fails
HeuristicFails(pd) == HeuristicThrows(pd) \/ TemplateThrows(pd)
\* what generateAIAnalysis gives for pd when only the heuristic is used
HeuristicOutcome(pd) ==
  IF HeuristicFails(pd) THEN Returned(FallbackResult)
  ELSE Returned([score |-> TotalScore(pd), analysis |-> Template(pd)])

\* C7: generateAIAnalysis never rejects: for every input (complete, or missing
\* financialMetrics, riskAssessment or one of their fields), with or without
\* an API key, and whatever the AI call does (text, no content, malformed
\* response, rejection), the promise resolves to a record with exactly the
\* fields score and analysis.
C7_ScoringNeverRejects ==
  /\ result.kind \in {"none", "returned"}
  /\ ScoreDone <=> result.kind = "returned"
  /\ ScoreDone => DOMAIN result.value = {"score", "analysis"}

\* the input lacks financialMetrics and the call has resolved all the same
C7_Witness ==
  /\ ScoreDone
  /\ propertyData.financialMetrics = Undefined
  /\ result = Returned(FallbackResult)

\* C8 (as claimed): the strategies are tried in the order AI, heuristic, fixed
\* fallback and the first success wins: with the AI configured and answering
\* with an extractable score the result is the AI score and text for every
\* input, and the fixed score 70 is returned only when the AI strategy did not
\* succeed and the heuristic computation threw.
C8_FirstSuccessWins ==
  ScoreDone =>
    /\ AIExtractable => result = Returned(AIResult)
    /\ result = Returned(FallbackResult)
       => ~AIExtractable /\ HeuristicFails(propertyData)

\* C9: with the AI configured, when its call rejects or its response holds no
\* extractable score, the result is exactly what the heuristic alone gives for
\* the same input (same score, same templated narrative), and nothing is
\* thrown to the caller.
C9_AIFailureFallsBackToHeuristic ==
  (ScoreDone /\ apiKey /\ ~AIExtractable)
  => result = HeuristicOutcome(propertyData)

\* the AI call was made and rejected, and the templated heuristic result came
\* back
C9_Witness ==
  /\ ScoreDone /\ apiKey /\ aiCalls = 1
  /\ ai.kind = "rejects"
  /\ result.kind = "returned"
  /\ result.value.analysis.template = "heuristic"
  /\ result.value.score = JNum(97)

\* C10 (as claimed): the score returned is always an integer in 0..100, on the
\* AI path, the heuristic path and the fallback path.
C10_ScoreInRange ==
  ScoreDone =>
    /\ result.kind = "returned"
    /\ ~result.value.score.nan
    /\ result.value.score.v \in 0..100

\* a call of calculateInvestmentMetrics on metricsArg has completed
MetricsDone == mpc \in {"done", "between", "again"}
\* the value is missing (undefined or null)
Absent(x) == x \in {Undefined, Null}
\* the value is a number that is zero or negative
NotPositive(x) == ~Absent(x) /\ x.d > 0 /\ x.n <= 0
\* the inputs the contract rejects
InvalidMetricsInput(pd) ==
  \/ Absent(pd.purchasePrice) \/ NotPositive(pd.purchasePrice)
  \/ Absent(pd.estimatedMonthlyRent) \/ NotPositive(pd.estimatedMonthlyRent)
  \/ NotPositive(pd.squareMeters)

\* C11 (as claimed): calculateInvestmentMetrics fails, instead of returning a
\* metrics record, whenever purchasePrice is absent or <= 0, the rent is absent
\* or <= 0, or squareMeters <= 0.
C11_InvalidInputRejected ==
  (MetricsDone /\ InvalidMetricsInput(metricsArg)) => metricsResult.kind = "threw"

\* the error the contract names: a ScrapeError carrying platform, url, cause
IsScrapeError(e, p, u) ==
  /\ DOMAIN e = {"name", "platform", "url", "cause"}
  /\ e.name = "ScrapeError"
  /\ e.platform = p
  /\ e.url = u

\* C12 (as claimed): whatever fails inside scrapeProperty (navigation, parser,
\* unsupported platform), the error that reaches the caller is a ScrapeError
\* carrying the platform, the url and the root cause.
C12_FailuresWrappedInScrapeError ==
  \A c \in Calls :
    (Done(c) /\ outcome[c].kind = "threw")
    => IsScrapeError(outcome[c].value, platform[c], url[c])

\* the try body of c has failed (the failure is recorded or already surfaced)
Failed(c) == pending[c].kind = "threw" \/ outcome[c].kind = "threw"

\* C13: nothing is retried: one call performs at most one launch, at most one
\* navigation (only after its launch) and at most one parser invocation (only
\* after its navigation); once its try body has failed the call does no
\* further work but closing the session, and its promise is settled exactly
\* when the call is done.
C13_NothingRetried ==
  \A c \in Calls :
    /\ launchCalls[c] <= 1
    /\ gotoCalls[c] <= launchCalls[c]
    /\ parserCalls[c] <= gotoCalls[c]
    /\ Failed(c) => pc[c] \in {"close", "done"}
    /\ (outcome[c].kind # "none") <=> Done(c)

\* one call has surfaced a navigation failure and another a parser failure,
\* each after a single launch and a single navigation
C13_Witness ==
  \E c, d \in Calls :
    /\ Done(c) /\ outcome[c] = Threw(Err(<<"navigation failed">>))
    /\ launchCalls[c] = 1 /\ gotoCalls[c] = 1 /\ parserCalls[c] = 0
    /\ Done(d) /\ outcome[d].kind = "threw" /\ parserCalls[d] = 1
    /\ launchCalls[d] = 1 /\ gotoCalls[d] = 1

\* c completes its parse in this step
ParseCompletes(c) ==
  pc[c] = "parse" /\ pc'[c] = "close" /\ pending'[c].kind = "returned"
\* the key platform:url of the arguments of c, the platform as supplied
KeyOf(c) == <<platform[c], url[c]>>
\* c has a parsed record to return
Parsed(c) == pc[c] \in {"close", "done"} /\ pending[c].kind = "returned"

\* C14: a call that completes its parse stores {timestamp: now, data: the
\* parsed record} under platform:url in that same step, after its navigation
\* and its parser invocation, and the record it then returns is the one it
\* stored; the cache is written in no other step, so an entry made by a call
\* belongs to a successful parse of that call.
C14_CachedOnSuccessfulParseOnly ==
  /\ [][\A c \in Calls :
          ParseCompletes(c)
          => /\ KeyOf(c) \in DOMAIN propertyCache'
             /\ propertyCache'[KeyOf(c)] =
                  [timestamp |-> now, data |-> pending'[c].value]
             /\ gotoCalls[c] = 1 /\ parserCalls[c] = 1]_vars
  /\ [][\A k \in DOMAIN propertyCache' :
          (k \notin DOMAIN propertyCache \/ propertyCache'[k] # propertyCache[k])
          => \E c \in Calls : ParseCompletes(c) /\ k = KeyOf(c)]_vars
  /\ [](\A c \in Calls :
          /\ Parsed(c) => KeyOf(c) \in DOMAIN propertyCache
          /\ (Done(c) /\ outcome[c].kind = "returned" /\ launchCalls[c] = 1)
             => outcome[c] = pending[c]
          /\ \A k \in DOMAIN propertyCache :
               propertyCache[k].data.obj = callNo[c]
               => k = KeyOf(c) /\ Parsed(c)
                  /\ pending[c] = Returned(propertyCache[k].data))

\* a call has returned the record it parsed, and the entry under its key holds
\* that record with the time of the parse
C14_Witness ==
  \E c \in Calls :
    /\ ReturnedOwnParse(c)
    /\ KeyOf(c) \in DOMAIN propertyCache
    /\ propertyCache[KeyOf(c)].data = outcome[c].value
    /\ propertyCache[KeyOf(c)].timestamp > 0

\* c and d are calls with the same arguments that both missed the cache and
\* both parsed
ConcurrentMisses(c, d) ==
  /\ c # d /\ KeyOf(c) = KeyOf(d)
  /\ launchCalls[c] = 1 /\ launchCalls[d] = 1
  /\ Parsed(c) /\ Parsed(d)

\* C15: calls for the same platform:url that all miss the cache each open and
\* close a session of their own; a call that completes its parse replaces
\* whatever entry the key had and touches no other key, so once they all have
\* finished the key holds one entry, that of the call whose parse completed
\* last; and every entry is well formed (a timestamp not in the future, a
\* record of the key's url and platform).
C15_LastWriterWins ==
  /\ [][\A c \in Calls :
          ParseCompletes(c)
          => /\ propertyCache'[KeyOf(c)].data.obj = callNo[c]
             /\ DOMAIN propertyCache' = DOMAIN propertyCache \cup {KeyOf(c)}
             /\ \A k \in DOMAIN propertyCache \ {KeyOf(c)} :
                  propertyCache'[k] = propertyCache[k]]_vars
  /\ [](\A c, d \in Calls :
          ConcurrentMisses(c, d)
          => /\ browser[c] # Null /\ browser[d] # Null /\ browser[c] # browser[d]
             /\ closeCalls[c] = 1 /\ closeCalls[d] = 1
             /\ propertyCache[KeyOf(c)].data \in {pending[c].value, pending[d].value})
  /\ [](\A k \in DOMAIN propertyCache :
          /\ DOMAIN propertyCache[k] = {"timestamp", "data"}
          /\ propertyCache[k].timestamp \in 0..now
          /\ propertyCache[k].data.source.url = k[2]
          /\ propertyCache[k].data.source.platform = ToLowerCase(k[1]))

\* two calls with the same arguments both missed and both finished; the call
\* made first completed its parse last, and the key holds its record
C15_Witness ==
  \E c, d \in Calls :
    /\ ConcurrentMisses(c, d) /\ Done(c) /\ Done(d)
    /\ callNo[c] < callNo[d]
    /\ propertyCache[KeyOf(c)].data = pending[c].value
    /\ pending[c].value # pending[d].value

\* the fields of the record a parser builds
ParserFields ==
  {"obj", "location", "purchasePrice", "estimatedMonthlyRent", "squareMeters",
   "propertyType", "source"}

\* C16: financial metrics and risk assessment are never cached: every cache
\* entry's data has exactly the parser's fields (no financialMetrics, no
\* riskAssessment), also after handlers have passed records served from the
\* cache to calculateInvestmentMetrics; and a record a handler holds that is
\* the cached object is still equal to it.
C16_MetricsNeverCached ==
  \A k \in DOMAIN propertyCache :
    /\ DOMAIN propertyCache[k].data = ParserFields
    /\ \A c \in Calls :
         (outcome[c].kind = "returned"
          /\ outcome[c].value.obj = propertyCache[k].data.obj)
         => outcome[c].value = propertyCache[k].data

\* a handler was served a record from the cache and has passed it to
\* calculateInvestmentMetrics; the cache still holds parser records only
C16_Witness ==
  /\ \E c \in Calls : pc[c] = "analysis" /\ launchCalls[c] = 0
  /\ DOMAIN propertyCache # {}
  /\ \A k \in DOMAIN propertyCache : DOMAIN propertyCache[k].data = ParserFields

\* the fields of the records passed to calculateInvestmentMetrics
MetricsFields ==
  {"location", "purchasePrice", "estimatedMonthlyRent", "squareMeters",
   "bedrooms", "propertyType"}
MetricsReturned == MetricsDone /\ metricsResult.kind = "returned"

\* C17: calculateInvestmentMetrics does not mutate its input: the object the
\* caller passed keeps every field and value through the calls made on it,
\* and the returned record has every input field with the same value plus
\* financialMetrics and riskAssessment.
C17_InputNotMutated ==
  /\ [][mpc # "idle" => metricsArg' = metricsArg]_vars
  /\ [](MetricsReturned
        => /\ DOMAIN metricsArg = MetricsFields
           /\ DOMAIN metricsResult.value =
                MetricsFields \cup {"financialMetrics", "riskAssessment"}
           /\ \A f \in MetricsFields : metricsResult.value[f] = metricsArg[f])

\* a record with a missing rent was enriched: the result carries the same
\* undefined rent and the argument is as it was
C17_Witness ==
  /\ MetricsReturned
  /\ metricsArg.estimatedMonthlyRent = Undefined
  /\ metricsResult.value.estimatedMonthlyRent = Undefined
  /\ metricsArg.purchasePrice = IntNum(240000)
  /\ metricsResult.value.financialMetrics.expenses.maintenance = IntNum(2400)

Whole(x) == x.n
PositiveWhole(x) == ~Absent(x) /\ x.d = 1 /\ x.n > 0

\* C19: for every purchase price p > 0 and monthly rent r > 0:
\* annualRentalIncome = 12 r; the expenses are 0.5%, 0.2% and 1% of p and 8% of
\* the annual income; totalExpenses is their sum and netOperatingIncome =
\* annualRentalIncome - totalExpenses, all exactly; for p = 450000, r = 1950
\* these are 23400, 2250, 900, 4500, 1872, 9522 and 13878.
C19_IncomeAndExpensesExact ==
  (/\ MetricsReturned
   /\ PositiveWhole(metricsArg.purchasePrice)
   /\ PositiveWhole(metricsArg.estimatedMonthlyRent))
  => LET p == Whole(metricsArg.purchasePrice)
         r == Whole(metricsArg.estimatedMonthlyRent)
         fm == metricsResult.value.financialMetrics
     IN /\ fm.annualRentalIncome = IntNum(12 * r)
        /\ fm.expenses.propertyTax = Num(5 * p, 1000)
        /\ fm.expenses.insurance = Num(2 * p, 1000)
        /\ fm.expenses.maintenance = Num(10 * p, 1000)
        /\ fm.expenses.managementFees = Num(8 * 12 * r, 100)
        /\ fm.totalExpenses = Num(17 * p + 960 * r, 1000)
        /\ fm.netOperatingIncome = Num(12000 * r - (17 * p + 960 * r), 1000)
        /\ (p = 450000 /\ r = 1950)
           => /\ fm.annualRentalIncome = IntNum(23400)
              /\ fm.expenses = [propertyTax |-> IntNum(2250),
                                insurance |-> IntNum(900),
                                maintenance |-> IntNum(4500),
                                managementFees |-> IntNum(1872)]
              /\ fm.totalExpenses = IntNum(9522)
              /\ fm.netOperatingIncome = IntNum(13878)

\* the worked example has been computed
C19_Witness ==
  /\ MetricsReturned
  /\ metricsArg.purchasePrice = IntNum(450000)
  /\ metricsArg.estimatedMonthlyRent = IntNum(1950)
  /\ metricsResult.value.financialMetrics.netOperatingIncome = IntNum(13878)

\* the locations that contain a prime-market name in some capitalisation
PrimeLocations == {"Madrid Centro", "BARCELONA", "Madridejos"}
\* the adjustment the contract gives for a yield y
ContractYieldAdjustment(y) ==
  IF y.d > 0 THEN (IF y.n > 5 * y.d THEN 10 ELSE IF y.n < 3 * y.d THEN 0 - 10 ELSE 0)
  ELSE 10 * y.n
\* the category the contract gives for a score
ContractCategory(score) ==
  CASE score >= 85 -> "Very Low"
    [] score >= 70 /\ score < 85 -> "Low"
    [] score >= 50 /\ score < 70 -> "Medium"
    [] score >= 30 /\ score < 50 -> "High"
    [] score < 30 -> "Very High"

\* C20: assessRisk gives score = 70, plus 10 for a location containing madrid
\* or barcelona in any capitalisation, plus 10 for a rental yield above 5,
\* minus 10 for one below 3 (nothing at exactly 3 or 5); the yield is
\* rent x 12 / price x 100; the category follows the thresholds 85, 70, 50, 30.
C20_RiskScoreAndCategory ==
  /\ \A sc \in 0..100 : RiskCategory(sc) = ContractCategory(sc)
  /\ MetricsReturned
     => LET ra == metricsResult.value.riskAssessment
            y == ra.factors.rentalYield
        IN /\ ra.score = 70
                + (IF metricsArg.location.str \in PrimeLocations THEN 10 ELSE 0)
                + ContractYieldAdjustment(y)
           /\ ra.overall = ContractCategory(ra.score)
           /\ (/\ PositiveWhole(metricsArg.purchasePrice)
               /\ PositiveWhole(metricsArg.estimatedMonthlyRent))
              => y = Num(1200 * Whole(metricsArg.estimatedMonthlyRent),
                         Whole(metricsArg.purchasePrice))

\* a yield of exactly 5 outside the prime markets has scored the plain 70
C20_Witness ==
  /\ MetricsReturned
  /\ metricsArg.purchasePrice = IntNum(240000)
  /\ metricsArg.estimatedMonthlyRent = IntNum(1000)
  /\ metricsArg.location = JStr("Valencia")
  /\ metricsResult.value.riskAssessment.factors.rentalYield = IntNum(5)
  /\ metricsResult.value.riskAssessment.score = 70
  /\ metricsResult.value.riskAssessment.overall = "Low"

\* a parser called on its own has settled
ParserCalled == parserCall # Null
\* the elements a listing may lack
OptionalElements ==
  {"title", "location", "area", "bedrooms", "bathrooms", "propertyType", "features"}
\* a string given by its pieces is the empty string
IsEmptyString(pieces) == \A i \in 1..Len(pieces) : pieces[i] = ""

\* C21 (as claimed): for each of the three parsers, a page on which every
\* optional element is missing is parsed without an error, and the record has
\* an empty address and location, squareMeters, bedrooms and bathrooms 0,
\* propertyType "Apartment" and a features sequence that is present and empty.
C21_DefaultsOnEmptyPage ==
  (ParserCalled /\ \A f \in OptionalElements : parserCall.page[f] = Missing)
  => /\ parseResult.kind = "returned"
     /\ IsEmptyString(parseResult.value.propertyAddress)
     /\ parseResult.value.location = JStr("")
     /\ parseResult.value.squareMeters = IntNum(0)
     /\ parseResult.value.bedrooms = IntNum(0)
     /\ parseResult.value.bathrooms = IntNum(0)
     /\ parseResult.value.propertyType = JStr("Apartment")
     /\ "features" \in DOMAIN parseResult.value
     /\ parseResult.value.features = << >>

\* a parser has returned a record
ParserReturned == ParserCalled /\ parseResult.kind = "returned"

\* C22 (as claimed): whenever a purchase price was extracted, the record's
\* estimatedMonthlyRent is purchasePrice x 0.045 / 12.
C22_RentIsPriceFraction ==
  (ParserReturned /\ parseResult.value.purchasePrice \notin {Null, NaN})
  => parseResult.value.estimatedMonthlyRent
       = Num(45 * parseResult.value.purchasePrice.n, 12000)

\* C22 (amended): in all three parsers, when the extracted price is a non-zero
\* number the record's estimatedMonthlyRent is price x 0.045 / 12 rounded to
\* the nearest whole number, halves upwards (1688 for 450000); when there is no
\* price element, no digit in its text or the price is 0, the rent is left
\* undefined.
C22_RentIsRoundedEstimate ==
  ParserReturned
  => LET price == parseResult.value.purchasePrice
         rent == parseResult.value.estimatedMonthlyRent
     IN IF price \in {Null, NaN, IntNum(0)} THEN rent = Undefined
        ELSE /\ rent # Undefined
             /\ rent.d = 1
             /\ 24000 * rent.n - 90 * price.n <= 12000
             /\ 24000 * rent.n - 90 * price.n > 0 - 12000
             /\ price = IntNum(450000) => rent = IntNum(1688)

\* parseHabitaclia has read the price 450.000 and estimated the rent 1688
C22_Witness ==
  /\ ParserReturned
  /\ parserCall.parser = "parseHabitaclia"
  /\ parseResult.value.purchasePrice = IntNum(450000)
  /\ parseResult.value.estimatedMonthlyRent = IntNum(1688)

\* the input carries financialMetrics.rentalYield, riskAssessment.score and
\* riskAssessment.overall
HasAllMetricFields(pd) ==
  /\ pd.financialMetrics # Undefined
  /\ pd.riskAssessment # Undefined
  /\ pd.financialMetrics.rentalYield # Undefined
  /\ pd.riskAssessment.score # Undefined
  /\ pd.riskAssessment.overall # Undefined
\* the smaller of two integers
Least(a, b) == IF a <= b THEN a ELSE b
\* round(min(rentalYield x 10, 50) + min(riskScore x 0.3, 30)
\*       + min((squareMeters > 70 ? 80 : 60) / 20 x 10, 20)),
\* for a yield y in hundredths of a percent, summed in tenths of a point
ContractHeuristicScore(y, riskScore, squareMeters) ==
  (Least(y, 500) + Least(3 * riskScore, 300)
   + Least(((IF squareMeters > 70 THEN 80 ELSE 60) * 100) \div 20, 200) + 5) \div 10

\* C23: when the AI is not configured, or is configured and gives no
\* extractable score, and the input has all metric fields, the score returned
\* is round(min(rentalYield x 10, 50) + min(riskScore x 0.3, 30)
\* + min((squareMeters > 70 ? 80 : 60) / 20 x 10, 20)) (NaN for a NaN yield);
\* for rentalYield = 5.2 the yield component is 50.
C23_HeuristicScoreFormula ==
  (ScoreDone /\ ~AIExtractable /\ HasAllMetricFields(propertyData))
  => LET y == propertyData.financialMetrics.rentalYield
         rs == propertyData.riskAssessment.score.v
         sq == propertyData.squareMeters.v
     IN /\ result.kind = "returned"
        /\ IF y.nan THEN result.value.score = JNaN
           ELSE result.value.score = JNum(ContractHeuristicScore(y.v, rs, sq))
        /\ y = JNum(520)
           => result.value.score
                = JNum((50 * 10 + Least(3 * rs, 300) + 200 + 5) \div 10)

\* without an API key a record with yield 5.2, risk score 70 and 90 square
\* metres was scored 50 + 21 + 20 = 91
C23_Witness ==
  /\ ScoreDone /\ ~apiKey
  /\ HasAllMetricFields(propertyData)
  /\ propertyData.financialMetrics.rentalYield = JNum(520)
  /\ propertyData.riskAssessment.score = JNum(70)
  /\ propertyData.squareMeters = JNum(90)
  /\ result = Returned([score |-> JNum(91), analysis |-> Template(propertyData)])

\* the digits of the first integer after the first "score" of the text, in
\* either spelling and wherever the integer stands; Null when there is no
\* "score" or no digit after the first one
ContractScoreDigits(text) ==
  LET words == {i \in 1..Len(text) : text[i] \in {"score", "SCORE"}} IN
  IF words = {} THEN Null
  ELSE LET first == CHOOSE i \in words : \A k \in words : i <= k
           digits == {j \in (first + 1)..Len(text) : text[j] \in {"0", "1"}}
       IN IF digits = {} THEN Null
          ELSE LET from == CHOOSE j \in digits : \A k \in digits : j <= k
                   to == CHOOSE j \in from..Len(text) :
                           /\ \A k \in from..j : text[k] \in {"0", "1"}
                           /\ j = Len(text) \/ text[j + 1] \notin {"0", "1"}
               IN [digits |-> SubSeq(text, from, to)]

\* C24 (as claimed): on the AI path the score is the first integer that
\* follows the first occurrence of "score" (in any capitalisation) in the
\* response text, returned with the response as the analysis; a response with
\* no such integer is an extraction failure and gives the heuristic result.
C24_FirstIntegerAfterScore ==
  (ScoreDone /\ apiKey /\ ai.kind = "content" /\ ~HeuristicThrows(propertyData))
  => IF ContractScoreDigits(ai.text) # Null
     THEN result = Returned([score |-> JNum(ParseInt(ContractScoreDigits(ai.text).digits)),
                             analysis |-> [template |-> "ai", text |-> ai.text]])
     ELSE result = HeuristicOutcome(propertyData)

\* the page element each structural field of the record is read from
StructuralFields ==
  {<<"area", "squareMeters">>, <<"bedrooms", "bedrooms">>,
   <<"bathrooms", "bathrooms">>}
\* the first decimal integer in a text, as [value], or Null without a digit
ContractInteger(text) ==
  LET digits == {i \in 1..Len(text) : text[i] \in {"0", "3", "9"}} IN
  IF digits = {} THEN Null
  ELSE LET from == CHOOSE i \in digits : \A k \in digits : i <= k
           to == CHOOSE j \in from..Len(text) :
                   /\ \A k \in from..j : k \in digits
                   /\ j = Len(text) \/ (j + 1) \notin digits
       IN [value |-> DigitsValue(SubSeq(text, from, to))]

\* C25 (as claimed): when the area, bedrooms or bathrooms element is on the
\* page and its text contains a decimal integer, the parser succeeds and the
\* record's field is that integer (so the default 0 stands for a missing
\* element only).
C25_StructuralFieldsParsed ==
  ParserCalled
  => \A sf \in StructuralFields :
       LET el == parserCall.page[sf[1]] IN
       (el # Missing /\ ContractInteger(el.textContent) # Null)
       => /\ parseResult.kind = "returned"
          /\ parseResult.value[sf[2]] = IntNum(ContractInteger(el.textContent).value)

\* the stages of the pipeline in the order of the contract, for a scraped and
\* for a mock record
ScrapePipeline == <<"scrapeProperty", "calculateInvestmentMetrics", "generateAIAnalysis">>
MockPipeline == <<"mockData", "calculateInvestmentMetrics", "generateAIAnalysis">>
IsPrefix(a, b) == Len(a) <= Len(b) /\ a = SubSeq(b, 1, Len(a))
\* the statuses of the responses sent for request h
Statuses(h) == [i \in 1..Len(responses[h]) |-> responses[h][i].status]

\* C26: the endpoint sends at most one response per request and exactly one
\* once the handler has finished; the stages run in the order scrape (or mock
\* record), enrich, score; a request without url and useMockData is answered
\* 400 with no stage invoked; a failed scrape is answered 400 with neither
\* calculateInvestmentMetrics nor generateAIAnalysis invoked; and a success
\* response is sent only after all three stages, carrying their results.
C26_OneResponseInPipelineOrder ==
  \A h \in Handlers :
    /\ Len(responses[h]) <= 1
    /\ (hpc[h] = "responded") <=> (Len(responses[h]) = 1)
    /\ IsPrefix(invoked[h], ScrapePipeline) \/ IsPrefix(invoked[h], MockPipeline)
    /\ (hpc[h] # "idle" /\ reqBody[h].url \in {Undefined, JStr("")}
        /\ ~reqBody[h].useMockData)
       => /\ Statuses(h) = <<400>>
          /\ invoked[h] = << >>
    /\ (invoked[h] # << >> /\ invoked[h][1] = "scrapeProperty")
       => /\ reqBody[h].url = JStr("u1") /\ ~reqBody[h].useMockData
          /\ Statuses(h) = <<400>> => invoked[h] = <<"scrapeProperty">>
    /\ (invoked[h] # << >> /\ invoked[h][1] = "mockData") => reqBody[h].useMockData
    /\ Statuses(h) = <<200>>
       => /\ invoked[h] \in {ScrapePipeline, MockPipeline}
          /\ {"financialMetrics", "riskAssessment", "atlasScore", "aiAnalysis"}
               \subseteq DOMAIN responses[h][1].data.propertyDetails
    /\ hpc[h] = "score" => invoked[h] \in {ScrapePipeline, MockPipeline}

\* one request was scraped, enriched, scored and answered 200 while another
\* was answered 400 after its scrape failed, with no further stage
C26_Witness ==
  \E h, g \in Handlers :
    /\ hpc[h] = "responded" /\ Statuses(h) = <<200>> /\ invoked[h] = ScrapePipeline
    /\ hpc[g] = "responded" /\ Statuses(g) = <<400>> /\ invoked[g] = <<"scrapeProperty">>

\* C27 (as claimed): a scrapeProperty call that throws to its caller has left
\* the cache as it was: no entry is one that the call stored, also when the
\* parse succeeded and only browser.close() failed.
C27_FailedScrapeLeavesCacheAlone ==
  \A c \in Calls :
    (Done(c) /\ outcome[c].kind = "threw")
    => \A k \in DOMAIN propertyCache : propertyCache[k].data.obj # callNo[c]

\* c and d are calls for the same url whose platform tags differ in case only
SameListingOtherCase(c, d) ==
  /\ c # d /\ url[c] = url[d]
  /\ platform[c] = "Idealista" /\ platform[d] = "idealista"

\* C28: the cache key holds the platform tag as supplied although the parser
\* is chosen by the lower-cased tag: a call is only ever served an entry that
\* was stored under its own tag and url, so after scrapeProperty(u, "Idealista")
\* a call scrapeProperty(u, "idealista") finds nothing, launches a browser of
\* its own and is parsed by the same parser, and the two calls leave two
\* separate entries for the listing.
C28_KeyKeepsSuppliedCase ==
  \A c, d \in Calls :
    /\ Parsed(c) => <<platform[c], url[c]>> \in DOMAIN propertyCache
    /\ (c # d /\ cachedData[c] # Null /\ cachedData[c].data.obj = callNo[d])
       => (platform[c] = platform[d] /\ url[c] = url[d])
    /\ (pc[c] \in {"launch", "goto", "parse", "close", "done"} /\ launchCalls[c] = 0)
       => cachedData[c] # Null
    /\ (SameListingOtherCase(c, d) /\ Parsed(c) /\ Parsed(d))
       => /\ launchCalls[c] = 1 /\ launchCalls[d] = 1
          /\ browser[c] # browser[d]
          /\ pending[c].value.source.platform = pending[d].value.source.platform
          /\ propertyCache[<<"Idealista", url[c]>>].data.obj
               # propertyCache[<<"idealista", url[d]>>].data.obj

\* the listing was scraped as "Idealista" and, within the TTL of that entry,
\* scraped again as "idealista"; the cache holds both records
C28_Witness ==
  \E c, d \in Calls :
    /\ SameListingOtherCase(c, d) /\ Done(c) /\ Done(d)
    /\ ReturnedOwnParse(c) /\ ReturnedOwnParse(d)
    /\ callNo[c] < callNo[d] /\ cachedData[d] = Null
    /\ propertyCache[<<"Idealista", url[c]>>].data = outcome[c].value
    /\ propertyCache[<<"idealista", url[d]>>].data = outcome[d].value
    /\ propertyCache[<<"Idealista", url[c]>>].timestamp
         < propertyCache[<<"idealista", url[d]>>].timestamp
    /\ propertyCache[<<"idealista", url[d]>>].timestamp
         < propertyCache[<<"Idealista", url[c]>>].timestamp + CACHE_TTL

\* C29: for every input whose location is a string assessRisk returns, and
\* its score is 60, 70, 80 or 90, so the category is "Very Low", "Low" or
\* "Medium": "High" and "Very High" are never produced.
C29_RiskScoreRange ==
  MetricsDone
  => /\ metricsArg.location # Undefined => metricsResult.kind = "returned"
     /\ metricsResult.kind = "returned"
        => /\ metricsResult.value.riskAssessment.score \in {60, 70, 80, 90}
           /\ metricsResult.value.riskAssessment.overall
                \in {"Very Low", "Low", "Medium"}

\* a record outside the prime markets with a yield below 3 got the lowest
\* score, 60, and the category "Medium"
C29_Witness ==
  /\ MetricsReturned
  /\ metricsArg.location = JStr("Valencia")
  /\ metricsArg.purchasePrice = IntNum(450000)
  /\ metricsArg.estimatedMonthlyRent = IntNum(500)
  /\ metricsResult.value.riskAssessment.score = 60
  /\ metricsResult.value.riskAssessment.overall = "Medium"

\* the areas a twin of the scored record may have
TwinAreas == {Undefined, JNum(0), JNum(60), JNum(70), JNum(71), JNum(90)}

\* C30: the heuristic result does not depend on squareMeters: whenever the
\* heuristic decides (no API key, or no extractable AI score), the record
\* that differs from the scored one in squareMeters only, with an area on
\* either side of 70 or none, gets the same score and narrative.
C30_ScoreIgnoresSquareMeters ==
  (ScoreDone /\ ~AIExtractable)
  => \A sq \in TwinAreas :
       HeuristicOutcome([propertyData EXCEPT !.squareMeters = sq]) = result

\* a record of 60 square metres was scored 91, as its twin of 90 square
\* metres is
C30_Witness ==
  /\ ScoreDone /\ ~apiKey
  /\ HasAllMetricFields(propertyData)
  /\ propertyData.squareMeters = JNum(60)
  /\ result.kind = "returned" /\ result.value.score = JNum(91)
  /\ HeuristicOutcome([propertyData EXCEPT !.squareMeters = JNum(90)]).value.score
       = JNum(91)

====
